---- MODULE Spec2Model ----
(***************************************************************************)
(* Retry classifier, apply-with-retry loop and the poll loops of the       *)
(* selfhost-cli installer (src/selfhost_cli).                              *)
(*                                                                         *)
(* Texts are sequences of one-character strings.  Durations are in tenths  *)
(* of a second, so that the x1.5 backoff of verify_dns_propagation stays   *)
(* exact in integer arithmetic (67.5 s = 675).                             *)
(***************************************************************************)
EXTENDS Integers, Sequences, FiniteSets, TLC

\* ------------------------------------------------------------------------
\* Model bounds
\* ------------------------------------------------------------------------
\* longest padding put before and after a body when building input texts
MaxPad == 1
\* largest max_retries argument passed to run_terraform_apply
MaxRetriesArg == 4
\* number of node listings after which the model stops following
\* wait_for_eks_cluster (the loop itself has no bound)
MaxEksProbes == 6
\* number of lines a pipe holds before a write to it blocks
PipeCapacity == 2
\* longest output of the subprocess of a streamed readout, in lines
MaxChildWrites == PipeCapacity + 1

\* ------------------------------------------------------------------------
\* Text helpers
\* ------------------------------------------------------------------------
VcpuLimitExceeded == <<"V", "c", "p", "u", "L", "i", "m", "i", "t", "E", "x", "c", "e", "e", "d", "e", "d">>
CREATE_FAILED == <<"C", "R", "E", "A", "T", "E", "_", "F", "A", "I", "L", "E", "D">>
RequestLimitExceeded == <<"R", "e", "q", "u", "e", "s", "t", "L", "i", "m", "i", "t", "E", "x", "c", "e", "e", "d", "e", "d">>
Throttling == <<"T", "h", "r", "o", "t", "t", "l", "i", "n", "g">>
ServiceUnavailable == <<"S", "e", "r", "v", "i", "c", "e", "U", "n", "a", "v", "a", "i", "l", "a", "b", "l", "e">>

LowerOf == "A" :> "a" @@ "B" :> "b" @@ "C" :> "c" @@ "D" :> "d" @@ "E" :> "e"
        @@ "F" :> "f" @@ "G" :> "g" @@ "H" :> "h" @@ "I" :> "i" @@ "L" :> "l"
        @@ "M" :> "m" @@ "N" :> "n" @@ "O" :> "o" @@ "P" :> "p" @@ "Q" :> "q"
        @@ "R" :> "r" @@ "S" :> "s" @@ "T" :> "t" @@ "U" :> "u" @@ "V" :> "v"
        @@ "X" :> "x"

ToLower(s) == [i \in 1..Len(s) |-> IF s[i] \in DOMAIN LowerOf THEN LowerOf[s[i]] ELSE s[i]]

ToUpper(s) == [i \in 1..Len(s) |->
                 IF \E u \in DOMAIN LowerOf : LowerOf[u] = s[i]
                 THEN CHOOSE u \in DOMAIN LowerOf : LowerOf[u] = s[i]
                 ELSE s[i]]

\* the list retryable_errors of is_retryable_error, in source order
retryable_errors == <<VcpuLimitExceeded, CREATE_FAILED, RequestLimitExceeded,
                      Throttling, ServiceUnavailable>>

\* Python's `needle in haystack` for str: scan the start positions left to
\* right and compare the slice of the needle's length, character by character.
RECURSIVE StartsWithAt(_, _, _, _)
StartsWithAt(haystack, needle, pos, k) ==
    IF k > Len(needle) THEN TRUE
    ELSE IF pos + k - 1 > Len(haystack) THEN FALSE
    ELSE IF haystack[pos + k - 1] # needle[k] THEN FALSE
    ELSE StartsWithAt(haystack, needle, pos, k + 1)

RECURSIVE FindFrom(_, _, _)
FindFrom(haystack, needle, pos) ==
    IF pos + Len(needle) - 1 > Len(haystack) THEN FALSE
    ELSE IF StartsWithAt(haystack, needle, pos, 1) THEN TRUE
    ELSE FindFrom(haystack, needle, pos + 1)

StrIn(needle, haystack) == FindFrom(haystack, needle, 1)

\* any(error in error_text for error in retryable_errors): the generator is
\* consumed in list order and stops at the first hit
RECURSIVE AnyMarkerFrom(_, _)
AnyMarkerFrom(error_text, i) ==
    IF i > Len(retryable_errors) THEN FALSE
    ELSE IF StrIn(retryable_errors[i], error_text) THEN TRUE
    ELSE AnyMarkerFrom(error_text, i + 1)

\* a classifier that compares without regard to letter case
is_retryable_error_nocase(error_text) ==
    \E i \in 1..Len(retryable_errors) :
        StrIn(ToLower(retryable_errors[i]), ToLower(error_text))

is_retryable_error(error_text) == AnyMarkerFrom(error_text, 1)

\* ------------------------------------------------------------------------
\* Input texts for the classifier
\* ------------------------------------------------------------------------
\* the marker with the character at position i removed
DropAt(s, i) == SubSeq(s, 1, i - 1) \o SubSeq(s, i + 1, Len(s))

\* the marker with a blank inserted after position i
SplitAt(s, i) == SubSeq(s, 1, i) \o <<" ">> \o SubSeq(s, i + 1, Len(s))

MarkerSet == {VcpuLimitExceeded, CREATE_FAILED, RequestLimitExceeded,
              Throttling, ServiceUnavailable}

Denied == <<"d", "e", "n", "i", "e", "d">>

Bodies ==
    MarkerSet
    \cup {ToLower(m) : m \in MarkerSet}
    \cup {ToUpper(m) : m \in MarkerSet}
    \cup {DropAt(m, 1) : m \in MarkerSet}
    \cup {DropAt(m, Len(m)) : m \in MarkerSet}
    \cup {SplitAt(m, 3) : m \in MarkerSet}
    \cup {<<>>, Denied}

PadChars == {"x", "T"}

RECURSIVE PadsUpTo(_)
PadsUpTo(n) ==
    IF n = 0 THEN {<<>>}
    ELSE PadsUpTo(n - 1) \cup {<<c>> \o p : c \in PadChars, p \in PadsUpTo(n - 1)}

Pads == PadsUpTo(MaxPad)

Texts == {p \o b \o s : p \in Pads, b \in Bodies, s \in Pads}

\* ------------------------------------------------------------------------
\* Output of a subprocess as run_terraform_apply reads it
\* ------------------------------------------------------------------------
ESC == "ESC"

UpperLetters == {"A", "B", "C", "D", "E", "F", "G", "H", "I", "J", "K", "L", "M",
                 "N", "O", "P", "Q", "R", "S", "T", "U", "V", "W", "X", "Y", "Z"}
LowerLetters == {"a", "b", "c", "d", "e", "f", "g", "h", "i", "j", "k", "l", "m",
                 "n", "o", "p", "q", "r", "s", "t", "u", "v", "w", "x", "y", "z"}

\* the character classes of the pattern
\*   \x1B(?:[@-Z\\-_]|\[[0-?]*[ -/]*[@-~])
\* (the quote characters of the classes do not occur in the modelled texts)
AnsiSingle == {"@"} \cup UpperLetters \cup {"\\", "]", "^", "_"}
AnsiParam == {"0", "1", "2", "3", "4", "5", "6", "7", "8", "9",
              ":", ";", "<", "=", ">", "?"}
AnsiInter == {" ", "!", "#", "$", "%", "&", "(", ")", "*", "+", ",", "-", ".", "/"}
AnsiFinal == {"@"} \cup UpperLetters \cup {"[", "\\", "]", "^", "_"}
             \cup LowerLetters \cup {"{", "|", "}", "~"}

\* first position at or after pos whose character is outside class
RECURSIVE SkipClass(_, _, _)
SkipClass(text, pos, class) ==
    IF pos <= Len(text) /\ text[pos] \in class
    THEN SkipClass(text, pos + 1, class)
    ELSE pos

\* position after the escape sequence that starts at pos, or pos when the
\* pattern does not match there
AnsiMatchEnd(text, pos) ==
    IF pos > Len(text) \/ text[pos] # ESC \/ pos + 1 > Len(text) THEN pos
    ELSE IF text[pos + 1] \in AnsiSingle THEN pos + 2
    ELSE IF text[pos + 1] = "["
         THEN LET k == SkipClass(text, SkipClass(text, pos + 2, AnsiParam), AnsiInter)
              IN IF k <= Len(text) /\ text[k] \in AnsiFinal THEN k + 1 ELSE pos
    ELSE pos

\* ansi_escape.sub: matches are removed left to right
RECURSIVE StripAnsiFrom(_, _)
StripAnsiFrom(text, pos) ==
    IF pos > Len(text) THEN <<>>
    ELSE LET e == AnsiMatchEnd(text, pos)
         IN IF e > pos THEN StripAnsiFrom(text, e)
            ELSE <<text[pos]>> \o StripAnsiFrom(text, pos + 1)

strip_ansi_escape_sequences(text) == StripAnsiFrom(text, 1)

Whitespace == {" ", "\n", "\t", "\r"}

\* str.strip()
RECURSIVE RStrip(_)
RStrip(text) ==
    IF Len(text) > 0 /\ text[Len(text)] \in Whitespace
    THEN RStrip(SubSeq(text, 1, Len(text) - 1))
    ELSE text

StrStrip(text) ==
    LET r == RStrip(text)
        b == SkipClass(r, 1, Whitespace)
    IN SubSeq(r, b, Len(r))

\* the list error_output built by the read loop: each non-blank line,
\* stripped and cleaned of escape sequences
RECURSIVE CleanLines(_)
CleanLines(lines) ==
    IF lines = <<>> THEN <<>>
    ELSE IF StrStrip(Head(lines)) # <<>>
         THEN <<strip_ansi_escape_sequences(StrStrip(Head(lines)))>> \o CleanLines(Tail(lines))
         ELSE CleanLines(Tail(lines))

\* "\n".join(parts)
RECURSIVE JoinLines(_)
JoinLines(parts) ==
    IF parts = <<>> THEN <<>>
    ELSE IF Len(parts) = 1 THEN parts[1]
    ELSE parts[1] \o <<"\n">> \o JoinLines(Tail(parts))

\* error_text = "\n".join(error_output) + stderr
ApplyErrorText(lines, stderr) == JoinLines(CleanLines(lines)) \o stderr

\* lines a failing terraform apply may write to stdout
LineDenied == Denied \o <<"\n">>
LineBlank == <<" ", " ", "\n">>
LineThrott == <<"T", "h", "r", "o", "t", "\n">>
LineColoured == <<ESC, "[", "3", "1", "m", "T", "h", "r", "o", "t", ESC, "[", "0", "m",
                  "t", "l", "i", "n", "g", "\n">>

StdoutSamples == {<<>>, <<LineDenied>>, <<LineBlank, LineColoured>>,
                  <<LineDenied, LineThrott>>}

StderrSamples == {<<>>, Denied, <<"t", "l", "i", "n", "g">>, CREATE_FAILED}

\* what one `terraform apply` subprocess does: it cannot be started, or it
\* runs, writes stdout and stderr and exits with rc
ApplyOutcomes ==
    {[started |-> FALSE, rc |-> 127, out |-> <<>>, err |-> <<>>]}
    \cup {[started |-> TRUE, rc |-> 0, out |-> <<>>, err |-> <<>>]}
    \cup {[started |-> TRUE, rc |-> 1, out |-> o, err |-> e] :
             o \in StdoutSamples, e \in StderrSamples}

\* what `terraform output -json` does inside get_terraform_outputs
OutputsOutcomes == {"values", "empty", "cmd_error", "bad_json", "bad_shape", "no_binary"}

\* ------------------------------------------------------------------------
\* Exceptions
\* ------------------------------------------------------------------------
\* base class of each exception class raised or named in the source
ExcBase ==
    [Abort |-> "RuntimeError", RuntimeError |-> "Exception",
     CalledProcessError |-> "SubprocessError", SubprocessError |-> "Exception",
     FileNotFoundError |-> "OSError", OSError |-> "Exception",
     JSONDecodeError |-> "ValueError", ValueError |-> "Exception",
     AttributeError |-> "Exception", NameError |-> "Exception",
     IndexError |-> "LookupError", LookupError |-> "Exception",
     Exception |-> "BaseException", KeyboardInterrupt |-> "BaseException"]

RECURSIVE IsSubclass(_, _)
IsSubclass(exc, class) ==
    IF exc = class THEN TRUE
    ELSE IF exc \in DOMAIN ExcBase THEN IsSubclass(ExcBase[exc], class)
    ELSE FALSE

\* a handler that also takes what `except BaseException` would take
CatchesAll(handler, exc) == TRUE

\* `except handler:` takes the exception exc
Catches(handler, exc) == IsSubclass(exc, handler)

\* how a call ends when exc leaves it
StatusOf(exc) ==
    IF exc = "Abort" THEN "aborted"
    ELSE IF exc = "KeyboardInterrupt" THEN "interrupted"
    ELSE "raised"

\* ------------------------------------------------------------------------
\* Program constants (durations in tenths of a second)
\* ------------------------------------------------------------------------
DefaultMaxRetries == 3
ApplyRetryDelay == 300
IngMaxAttempts == 30
IngPollDelay == 100
DnsMaxAttempts == 30
DnsInitialWait == 200
DnsWaitCap == 600
EksPollDelay == 100

\* ------------------------------------------------------------------------
\* State
\* ------------------------------------------------------------------------
VARIABLES
    entry,        \* the function that was called
    pc,           \* position of the single thread of control
    status,       \* how the call ended: returned, aborted, raised, interrupted
    console,      \* the messages printed so far
    intr,         \* a user interrupt was delivered
    lastSleep,    \* argument of the latest time.sleep call
    error_text,   \* argument of is_retryable_error
    classified,   \* is_retryable_error has returned
    retryable,    \* its return value
    auto_approve, \* run_terraform_apply: argument
    max_retries,  \* run_terraform_apply: argument
    retries,      \* run_terraform_apply: local
    applyCalls,   \* number of Popen(["terraform", "apply", ...]) calls
    applySleeps,  \* number of time.sleep calls of run_terraform_apply
    lastRc,       \* process.returncode of the latest apply that ran
    ingAttempt,   \* get_ingress_address: local attempt
    ingProbes,    \* number of `kubectl get ingress` calls
    ingSleeps,    \* number of time.sleep calls of get_ingress_address
    ingStatus,    \* how get_ingress_address ended
    ingFound,     \* the latest `kubectl get ingress` exited 0 with an address
    dnsAttempt,   \* verify_dns_propagation: local attempt
    dnsProbes,    \* number of probes (one `dig A` and one `dig CNAME`)
    dnsSleeps,    \* number of time.sleep calls of verify_dns_propagation
    wait_time,    \* verify_dns_propagation: local wait_time
    dnsStatus,    \* how verify_dns_propagation ended
    dnsFound,     \* the latest probe saw a record in one of the two answers
    eksProbes,    \* number of `kubectl get nodes` calls
    eksSleeps,    \* number of time.sleep calls of wait_for_eks_cluster
    eksReady,     \* the latest node listing exited 0 and showed the marker
    non_interactive, \* install: the --non-interactive flag
    force,        \* destroy_resources: argument
    typed,        \* what the operator typed at the prompt of confirm_destruction
    steps,        \* the steps of install begun so far, in order
    prompts,      \* the click.prompt, click.confirm and click.pause calls made
    cmds,         \* the external commands invoked so far
    exit0,        \* the commands seen to exit with status 0
    failure,      \* the command whose nonzero exit made a step raise click.Abort,
                  \* its captured stderr and whether that text was printed
    helmOutputs,  \* deploy_helm_charts: what its query of the outputs gave
    child,        \* the subprocess of a streamed readout
    pipes,        \* its stdout and stderr pipes
    approval      \* run_terraform_apply: how the apply was approved

ctlVars == <<entry, pc, status, console, intr, lastSleep>>
clsVars == <<error_text, classified, retryable>>
aplVars == <<auto_approve, max_retries, retries, applyCalls, applySleeps, lastRc>>
ingVars == <<ingAttempt, ingProbes, ingSleeps, ingStatus, ingFound>>
dnsVars == <<dnsAttempt, dnsProbes, dnsSleeps, wait_time, dnsStatus, dnsFound>>
eksVars == <<eksProbes, eksSleeps, eksReady>>
cliVars == <<non_interactive, force, typed, steps>>
obsVars == <<prompts, cmds, exit0>>
errVars == <<failure, helmOutputs>>
pipeVars == <<child, pipes>>
newVars == <<cliVars, obsVars, errVars, pipeVars>>

vars == <<ctlVars, clsVars, aplVars, ingVars, dnsVars, eksVars, newVars, approval>>

Entries == {"is_retryable_error", "run_terraform_apply", "setup_ingress",
            "wait_for_eks_cluster", "install", "run_terraform_setup",
            "destroy_resources", "stream_subprocess_output"}

StartPc == [is_retryable_error |-> "classify",
            run_terraform_apply |-> "apply_start",
            setup_ingress |-> "si_start",
            wait_for_eks_cluster |-> "eks_loop",
            install |-> "in_start",
            run_terraform_setup |-> "ts_start",
            destroy_resources |-> "ds_start",
            stream_subprocess_output |-> "rd_stdout"]

\* the subprocesses of a streamed readout: each writes a finite sequence of
\* lines, every one to stdout or to stderr, and then exits with rc
ChildPrograms ==
    UNION {[1..n -> {"out", "err"}] : n \in 0..MaxChildWrites}

NoFailure == [cmd |-> "none", err |-> <<>>, shown |-> FALSE]

NoChild == [prog |-> <<>>, rc |-> 0, exited |-> TRUE]

Init ==
    /\ entry \in Entries
    /\ pc = StartPc[entry]
    /\ status = "running"
    /\ console = {}
    /\ intr = FALSE
    /\ lastSleep = 0
    /\ error_text \in (IF entry = "is_retryable_error" THEN Texts ELSE {<<>>})
    /\ classified = FALSE
    /\ retryable = FALSE
    /\ auto_approve \in (IF entry \in {"run_terraform_apply", "run_terraform_setup"}
                         THEN BOOLEAN ELSE {FALSE})
    /\ max_retries \in (IF entry = "run_terraform_apply" THEN 0..MaxRetriesArg
                        ELSE {DefaultMaxRetries})
    /\ retries = 0
    /\ applyCalls = 0
    /\ applySleeps = 0
    /\ lastRc = 0
    /\ ingAttempt = 0
    /\ ingProbes = 0
    /\ ingSleeps = 0
    /\ ingStatus = "none"
    /\ ingFound = FALSE
    /\ dnsAttempt = 0
    /\ dnsProbes = 0
    /\ dnsSleeps = 0
    /\ wait_time = DnsInitialWait
    /\ dnsStatus = "none"
    /\ dnsFound = FALSE
    /\ eksProbes = 0
    /\ eksSleeps = 0
    /\ eksReady = FALSE
    /\ non_interactive \in (IF entry = "install" THEN BOOLEAN ELSE {FALSE})
    /\ force \in (IF entry = "destroy_resources" THEN BOOLEAN ELSE {FALSE})
    /\ typed = <<>>
    /\ steps = <<>>
    /\ prompts = {}
    /\ cmds = {}
    /\ exit0 = {}
    /\ failure = NoFailure
    /\ helmOutputs = "not asked"
    /\ child \in (IF entry = "stream_subprocess_output"
                  THEN {[prog |-> p, rc |-> r, exited |-> FALSE] :
                           p \in ChildPrograms, r \in {0, 1}}
                  ELSE {NoChild})
    /\ pipes = [out |-> 0, err |-> 0]
    /\ approval = "not asked"

\* ------------------------------------------------------------------------
\* Calls and returns
\* ------------------------------------------------------------------------
\* the functions that called fn and are still running, innermost first
Callers(fn) ==
    CASE entry = fn -> <<>>
      [] entry = "install" /\ fn = "run_terraform_apply" ->
            <<"run_terraform_setup", "install">>
      [] entry = "install" /\ fn = "wait_for_eks_cluster" ->
            <<"deploy_helm_charts", "install">>
      [] entry = "install" /\ fn # "install" -> <<"install">>
      [] entry = "run_terraform_setup" /\ fn = "run_terraform_apply" ->
            <<"run_terraform_setup">>
      [] OTHER -> <<>>

\* what an except clause leaves behind: the exception that goes on and the
\* lines the clause prints
Passes(exc) == [exc |-> exc, printed |-> {}]

\* except click.Abort: raise / except Exception: print, raise click.Abort()
\* of run_terraform_setup
TerraformSetupHandler(exc) ==
    IF Catches("Abort", exc) THEN Passes(exc)
    ELSE IF Catches("Exception", exc)
    THEN [exc |-> "Abort", printed |-> {"Error during Terraform setup"}]
    ELSE Passes(exc)

\* clauses of destroy_resources that let every exception through as it is
DestroyHandlerPassing(exc) == Passes(exc)

\* the same two clauses of destroy_resources
DestroyHandler(exc) ==
    IF Catches("Abort", exc) THEN Passes(exc)
    ELSE IF Catches("Exception", exc)
    THEN [exc |-> "Abort", printed |-> {"Error during resource destruction"}]
    ELSE Passes(exc)

\* except Exception of deploy_helm_charts: print, raise click.Abort()
HelmHandler(exc) ==
    IF Catches("Exception", exc)
    THEN [exc |-> "Abort", printed |-> {"Error during Helm deployment"}]
    ELSE Passes(exc)

\* except Exception of check_aws_permissions: print, raise click.Abort()
PermissionsHandler(exc) ==
    IF Catches("Exception", exc)
    THEN [exc |-> "Abort", printed |-> {"Error: permissions"}]
    ELSE Passes(exc)

\* clauses of install that end the exception instead of raising it again
InstallHandlerSwallowing(exc) ==
    IF Catches("Abort", exc)
    THEN [exc |-> "none", printed |-> {"Installation cancelled."}]
    ELSE IF Catches("Exception", exc)
    THEN [exc |-> "none", printed |-> {"Error during installation"}]
    ELSE Passes(exc)

\* except click.Abort: print, raise / except Exception: print, raise
\* click.Abort() of install
InstallHandler(exc) ==
    IF Catches("Abort", exc)
    THEN [exc |-> exc, printed |-> {"Installation cancelled."}]
    ELSE IF Catches("Exception", exc)
    THEN [exc |-> "Abort", printed |-> {"Error during installation"}]
    ELSE Passes(exc)

\* the except clauses around the body of fn, given the exception exc
OwnHandler(fn, exc) ==
    CASE fn = "run_terraform_setup" -> TerraformSetupHandler(exc)
      [] fn = "destroy_resources" -> DestroyHandler(exc)
      [] fn = "deploy_helm_charts" -> HelmHandler(exc)
      [] fn = "check_aws_permissions" -> PermissionsHandler(exc)
      [] fn = "install" -> InstallHandler(exc)
      [] OTHER -> Passes(exc)

\* exc travels up through the functions of chain, the console showing con
RECURSIVE Unwind(_, _, _)
Unwind(chain, exc, con) ==
    IF chain = <<>>
    THEN [exc |-> exc, con |-> con]
    ELSE LET h == OwnHandler(Head(chain), exc)
         IN Unwind(Tail(chain), h.exc, con \cup h.printed)

\* where control goes when fn returns normally: to the end of the run when
\* fn is the function called, else into its caller
AfterReturn(fn) ==
    CASE entry = fn -> [pc |-> "done", status |-> "returned"]
      [] fn = "run_terraform_apply" -> [pc |-> "ts_return", status |-> "running"]
      [] fn = "wait_for_eks_cluster" -> [pc |-> "dh_after_eks", status |-> "running"]

\* fn ends, by the exception exc or by a normal return (exc = "none"), the
\* console showing con
Finish(fn, exc, con) ==
    IF exc = "none"
    THEN LET a == AfterReturn(fn)
         IN /\ pc' = a.pc
            /\ status' = a.status
            /\ console' = con
    ELSE LET u == Unwind(Callers(fn), exc, con)
         IN /\ pc' = "done"
            /\ status' = StatusOf(u.exc)
            /\ console' = u.con

\* exc is raised in the body of fn
Raise(fn, exc, con) ==
    LET h == OwnHandler(fn, exc)
    IN Finish(fn, h.exc, con \cup h.printed)

\* ------------------------------------------------------------------------
\* is_retryable_error called on its own
\* ------------------------------------------------------------------------
Classify ==
    /\ pc = "classify"
    /\ retryable' = is_retryable_error(error_text)
    /\ classified' = TRUE
    /\ pc' = "done"
    /\ status' = "returned"
    /\ UNCHANGED <<entry, console, intr, lastSleep, error_text>>
    /\ UNCHANGED <<aplVars, ingVars, dnsVars, eksVars, newVars>>
    /\ UNCHANGED approval

\* ------------------------------------------------------------------------
\* run_terraform_apply
\* ------------------------------------------------------------------------
\* get_terraform_outputs: the exception that leaves it (or "none"), the
\* dictionary it returns and what it prints
get_terraform_outputs(q) ==
    CASE q = "values"    -> [exc |-> "none", value |-> [eks_cluster_name |-> "demo"],
                             printed |-> {}]
      [] q = "empty"     -> [exc |-> "none", value |-> <<>>, printed |-> {}]
      [] q = "cmd_error" -> [exc |-> "none", value |-> <<>>,
                             printed |-> {"Failed to get Terraform outputs"}]
      [] q = "bad_json"  -> [exc |-> "none", value |-> <<>>,
                             printed |-> {"Invalid Terraform output format"}]
      [] q = "bad_shape" -> [exc |-> "AttributeError", value |-> <<>>, printed |-> {}]
      [] q = "no_binary" -> [exc |-> "FileNotFoundError", value |-> <<>>, printed |-> {}]

\* a command line that always carries -auto-approve
ApplyCommandAlwaysApproved(approve) == "terraform apply -auto-approve"

\* command = ["terraform", "apply"], with "-auto-approve" appended if
\* auto_approve
ApplyCommand(approve) ==
    IF approve THEN "terraform apply -auto-approve" ELSE "terraform apply"

\* while retries < max_retries
ApplyLoopCond(r) == r < max_retries

\* a delay that grows with the number of the retry
ApplyDelayGrowing(r) == ApplyRetryDelay * r

\* time.sleep(30) before retry number r
ApplyDelay(r) == ApplyRetryDelay

\* the exception exc was raised in the try block while retries = r and
\* the console showed con: the `except Exception` clause of the loop
ApplyExcept(exc, r, con) ==
    IF Catches("Exception", exc)
    THEN IF r < max_retries - 1
         THEN /\ retries' = r + 1
              /\ console' = con \cup {"Error occurred. Attempting retry"}
              /\ applySleeps' = applySleeps + 1
              /\ lastSleep' = ApplyDelay(r + 1)
              /\ pc' = "apply_sleep_handler"
              /\ status' = status
         ELSE /\ retries' = r
              /\ Finish("run_terraform_apply", "Abort",
                        con \cup {"Error during terraform apply"})
              /\ UNCHANGED <<applySleeps, lastSleep>>
    ELSE /\ retries' = r
         /\ Finish("run_terraform_apply", exc, con)
         /\ UNCHANGED <<applySleeps, lastSleep>>

\* print_section, then the confirmation unless auto_approve
ApplyConfirm ==
    /\ pc = "apply_start"
    /\ \E answer \in {"yes", "no", "eof"} :
        /\ auto_approve => answer = "yes"
        /\ approval' = (IF auto_approve THEN "auto" ELSE answer)
        /\ CASE answer = "yes" ->
                  /\ pc' = "apply_loop"
                  /\ console' = console \cup {"Applying Terraform Configuration"}
                  /\ status' = status
             [] answer = "no" ->
                  Finish("run_terraform_apply", "none",
                         console \cup {"Applying Terraform Configuration",
                                       "Terraform apply cancelled."})
             [] answer = "eof" ->
                  Finish("run_terraform_apply", "Abort",
                         console \cup {"Applying Terraform Configuration"})
    /\ prompts' = (IF auto_approve THEN prompts
                   ELSE prompts \cup {"Do you want to continue with Terraform apply?"})
    /\ retries' = 0
    /\ UNCHANGED <<entry, intr, lastSleep>>
    /\ UNCHANGED <<auto_approve, max_retries, applyCalls, applySleeps, lastRc>>
    /\ UNCHANGED <<clsVars, ingVars, dnsVars, eksVars>>
    /\ UNCHANGED <<cliVars, cmds, exit0, errVars, pipeVars>>

\* one round of the while loop: start terraform apply, read its output,
\* wait for it, then classify the failure or fetch the outputs
ApplyAttempt ==
    /\ pc = "apply_loop"
    /\ ApplyLoopCond(retries)
    /\ applyCalls' = applyCalls + 1
    /\ \E o \in ApplyOutcomes :
        /\ cmds' = cmds \cup {ApplyCommand(auto_approve)}
                     \cup (IF o.started /\ o.rc = 0 THEN {"terraform output -json"} ELSE {})
        /\ exit0' = exit0 \cup (IF o.started /\ o.rc = 0
                                THEN {ApplyCommand(auto_approve)} ELSE {})
        /\ IF ~o.started
           THEN /\ ApplyExcept("FileNotFoundError", retries, console)
                /\ UNCHANGED <<lastRc, clsVars>>
           ELSE IF o.rc # 0
           THEN LET et == ApplyErrorText(o.out, o.err)
                IN /\ lastRc' = o.rc
                   /\ error_text' = et
                   /\ classified' = TRUE
                   /\ retryable' = is_retryable_error(et)
                   /\ IF is_retryable_error(et) /\ retries < max_retries - 1
                      THEN /\ retries' = retries + 1
                           /\ console' = console
                                  \cup {"Retryable error detected. Attempting retry"}
                           /\ applySleeps' = applySleeps + 1
                           /\ lastSleep' = ApplyDelay(retries + 1)
                           /\ pc' = "apply_sleep_try"
                           /\ status' = status
                      ELSE ApplyExcept("Abort", retries,
                                       console \cup {"Terraform apply failed: stderr"})
           ELSE /\ lastRc' = o.rc
                /\ UNCHANGED clsVars
                /\ \E q \in OutputsOutcomes :
                    LET g == get_terraform_outputs(q)
                    IN IF g.exc # "none"
                       THEN ApplyExcept(g.exc, retries, console \cup g.printed)
                       ELSE /\ Finish("run_terraform_apply", "none",
                                   console \cup g.printed
                                    \cup (IF g.value # <<>> THEN {"Terraform outputs:"} ELSE {})
                                    \cup {"Terraform apply completed successfully."})
                            /\ UNCHANGED <<retries, applySleeps, lastSleep>>
    /\ UNCHANGED <<entry, intr, auto_approve, max_retries>>
    /\ UNCHANGED <<ingVars, dnsVars, eksVars>>
    /\ UNCHANGED <<cliVars, prompts, errVars, pipeVars>>
    /\ UNCHANGED approval

\* the loop condition fails: the function falls off its end, returning None
ApplyLoopExit ==
    /\ pc = "apply_loop"
    /\ ~ApplyLoopCond(retries)
    /\ Finish("run_terraform_apply", "none", console)
    /\ UNCHANGED <<entry, intr, lastSleep>>
    /\ UNCHANGED <<clsVars, aplVars, ingVars, dnsVars, eksVars, newVars>>
    /\ UNCHANGED approval

\* time.sleep(30) returns; `continue`
ApplySleepDone ==
    /\ pc \in {"apply_sleep_try", "apply_sleep_handler"}
    /\ pc' = "apply_loop"
    /\ UNCHANGED <<entry, status, console, intr, lastSleep>>
    /\ UNCHANGED <<clsVars, aplVars, ingVars, dnsVars, eksVars, newVars>>
    /\ UNCHANGED approval

\* a KeyboardInterrupt is raised out of time.sleep(30)
ApplyInterrupt ==
    /\ pc \in {"apply_sleep_try", "apply_sleep_handler"}
    /\ intr' = TRUE
    /\ IF pc = "apply_sleep_try"
       THEN ApplyExcept("KeyboardInterrupt", retries, console)
       ELSE /\ Finish("run_terraform_apply", "KeyboardInterrupt", console)
            /\ UNCHANGED <<retries, applySleeps, lastSleep>>
    /\ UNCHANGED <<entry, auto_approve, max_retries, applyCalls, lastRc>>
    /\ UNCHANGED <<clsVars, ingVars, dnsVars, eksVars, newVars>>
    /\ UNCHANGED approval

\* ------------------------------------------------------------------------
\* setup_ingress, get_ingress_address, verify_dns_propagation
\* ------------------------------------------------------------------------
Address == <<"e", "l", "b", ".", "a", "w", "s">>

\* what one `kubectl get ingress ... -o jsonpath=...` does: it cannot be
\* started, or it exits with rc having written out to stdout
KubectlIngressOutcomes ==
    {[started |-> FALSE, rc |-> 127, out |-> <<>>]}
    \cup {[started |-> TRUE, rc |-> 1, out |-> <<>>]}
    \cup {[started |-> TRUE, rc |-> 0, out |-> o] : o \in {<<>>, <<" ", "\n">>, Address}}

\* stdout of one `dig +short`
DigStdouts == {<<>>, <<"\n">>, <<"1", "0", ".", "0", ".", "0", ".", "7", "\n">>}

\* what one probe of verify_dns_propagation does: dig cannot be started, or
\* both queries run (their exit status is not looked at)
DigOutcomes ==
    {[started |-> FALSE, a |-> <<>>, cname |-> <<>>]}
    \cup {[started |-> TRUE, a |-> x, cname |-> y] : x \in DigStdouts, y \in DigStdouts}

\* a loop that admits one attempt more
PollLoopCondOneMore(attempt, max_attempts) == attempt <= max_attempts

\* while attempt < max_attempts
PollLoopCond(attempt, max_attempts) == attempt < max_attempts

\* a backoff without the cap
NextWaitUncapped(w) == (w * 15) \div 10

\* wait_time = min(wait_time * 1.5, 60)
NextWait(w) ==
    LET grown == (w * 15) \div 10
    IN IF grown < DnsWaitCap THEN grown ELSE DnsWaitCap

\* the `except Exception` clause of setup_ingress, entered with exc while
\* the console showed con
SetupIngressExcept(exc, con) ==
    IF Catches("Exception", exc)
    THEN Finish("setup_ingress", "Abort", con \cup {"Error during ingress setup"})
    ELSE Finish("setup_ingress", exc, con)

\* the end of setup_ingress after the DNS question
SetupIngressFinish(con) ==
    Finish("setup_ingress", "none", con \cup {"Setup Complete!"})

\* a timeout of verify_dns_propagation that aborts
DnsTimeoutAborts(con) ==
    SetupIngressExcept("Abort", con \cup {"DNS propagation is taking longer than expected"})

\* verify_dns_propagation ran out of attempts: warn and return False
DnsTimeoutReturn(con) ==
    SetupIngressFinish(con \cup {"DNS propagation is taking longer than expected"})

\* a test that takes every exit status 0 as an address
IngProbeSucceededAnyOutput(o) == o.rc = 0

\* check=True did not raise and result.stdout.strip() is not empty
IngProbeSucceeded(o) == o.rc = 0 /\ StrStrip(o.out) # <<>>

\* get_cluster_info, then the start of get_ingress_address
SetupIngressStart ==
    /\ pc = "si_start"
    /\ \E info \in {"found", "fallback", "prompt_eof"} :
        /\ prompts' = (IF info = "found" THEN prompts
                       ELSE prompts \cup {"Please enter your EKS cluster name"})
        /\ CASE info = "found" ->
               /\ console' = console \cup {"Found cluster", "Retrieving Ingress Service Address"}
               /\ pc' = "ing_loop"
               /\ status' = status
          [] info = "fallback" ->
               /\ console' = console \cup {"Unable to automatically retrieve cluster information.",
                                           "Retrieving Ingress Service Address"}
               /\ pc' = "ing_loop"
               /\ status' = status
          [] info = "prompt_eof" ->
               SetupIngressExcept("Abort",
                   console \cup {"Unable to automatically retrieve cluster information."})
    /\ ingAttempt' = 0
    /\ cmds' = cmds \cup {"terraform output -json NAME"}
    /\ UNCHANGED <<entry, intr, lastSleep, ingProbes, ingSleeps, ingStatus, ingFound>>
    /\ UNCHANGED <<clsVars, aplVars, dnsVars, eksVars>>
    /\ UNCHANGED <<cliVars, exit0, errVars, pipeVars>>
    /\ UNCHANGED approval

\* one round of the loop of get_ingress_address
IngProbe ==
    /\ pc = "ing_loop"
    /\ PollLoopCond(ingAttempt, IngMaxAttempts)
    /\ ingProbes' = ingProbes + 1
    /\ \E o \in KubectlIngressOutcomes :
        /\ ingFound' = (o.started /\ o.rc = 0 /\ StrStrip(o.out) # <<>>)
        /\ IF ~o.started
           THEN \* FileNotFoundError: no clause of the function takes it
                /\ SetupIngressExcept("FileNotFoundError", console)
                /\ ingStatus' = "raised"
                /\ UNCHANGED <<ingAttempt, ingSleeps, lastSleep>>
           ELSE IF IngProbeSucceeded(o)
           THEN \* return address; setup_ingress shows the DNS instructions
                /\ console' = console \cup {"Ingress address found",
                                            "DNS Configuration Required"}
                /\ ingStatus' = "address"
                /\ pc' = "si_confirm"
                /\ status' = status
                /\ UNCHANGED <<ingAttempt, ingSleeps, lastSleep>>
           ELSE IF o.rc # 0 /\ ingAttempt = IngMaxAttempts - 1
           THEN \* except CalledProcessError on the last attempt
                /\ SetupIngressExcept("Abort",
                       console \cup {"Failed to retrieve ingress address: stderr"})
                /\ ingStatus' = "timeout"
                /\ UNCHANGED <<ingAttempt, ingSleeps, lastSleep>>
           ELSE \* attempt += 1; time.sleep(10)
                /\ ingAttempt' = ingAttempt + 1
                /\ ingSleeps' = ingSleeps + 1
                /\ lastSleep' = IngPollDelay
                /\ pc' = "ing_sleep"
                /\ UNCHANGED <<status, console, ingStatus>>
    /\ cmds' = cmds \cup {"kubectl get ingress"}
    /\ UNCHANGED <<entry, intr>>
    /\ UNCHANGED <<clsVars, aplVars, dnsVars, eksVars>>
    /\ UNCHANGED <<cliVars, prompts, exit0, errVars, pipeVars>>
    /\ UNCHANGED approval

\* time.sleep(10) returns; progress.update; back to the loop test
IngSleepDone ==
    /\ pc = "ing_sleep"
    /\ pc' = "ing_loop"
    /\ UNCHANGED <<entry, status, console, intr, lastSleep>>
    /\ UNCHANGED <<clsVars, aplVars, ingVars, dnsVars, eksVars, newVars>>
    /\ UNCHANGED approval

\* the loop of get_ingress_address ends: timeout message and abort
IngTimeout ==
    /\ pc = "ing_loop"
    /\ ~PollLoopCond(ingAttempt, IngMaxAttempts)
    /\ SetupIngressExcept("Abort", console \cup {"Timeout waiting for ingress address"})
    /\ ingStatus' = "timeout"
    /\ UNCHANGED <<entry, intr, lastSleep, ingAttempt, ingProbes, ingSleeps, ingFound>>
    /\ UNCHANGED <<clsVars, aplVars, dnsVars, eksVars, newVars>>
    /\ UNCHANGED approval

\* a KeyboardInterrupt is raised out of time.sleep(10), outside every try
\* of get_ingress_address
IngInterrupt ==
    /\ pc = "ing_sleep"
    /\ intr' = TRUE
    /\ SetupIngressExcept("KeyboardInterrupt", console)
    /\ ingStatus' = "interrupted"
    /\ UNCHANGED <<entry, lastSleep, ingAttempt, ingProbes, ingSleeps, ingFound>>
    /\ UNCHANGED <<clsVars, aplVars, dnsVars, eksVars, newVars>>
    /\ UNCHANGED approval

\* click.confirm("Would you like to wait for DNS propagation?")
SetupIngressConfirm ==
    /\ pc = "si_confirm"
    /\ \E answer \in {"yes", "no", "eof"} :
        CASE answer = "yes" ->
               /\ console' = console \cup {"Verifying DNS Propagation"}
               /\ pc' = "dns_loop"
               /\ status' = status
          [] answer = "no" -> SetupIngressFinish(console)
          [] answer = "eof" -> SetupIngressExcept("Abort", console)
    /\ dnsAttempt' = 0
    /\ wait_time' = DnsInitialWait
    /\ prompts' = prompts \cup {"Would you like to wait for DNS propagation?"}
    /\ UNCHANGED <<entry, intr, lastSleep, dnsProbes, dnsSleeps, dnsStatus, dnsFound>>
    /\ UNCHANGED <<clsVars, aplVars, ingVars, eksVars>>
    /\ UNCHANGED <<cliVars, cmds, exit0, errVars, pipeVars>>
    /\ UNCHANGED approval

\* one round of the loop of verify_dns_propagation
DnsProbe ==
    /\ pc = "dns_loop"
    /\ PollLoopCond(dnsAttempt, DnsMaxAttempts)
    /\ dnsProbes' = dnsProbes + 1
    /\ \E o \in DigOutcomes :
        /\ dnsFound' = (o.started /\ (StrStrip(o.a) # <<>> \/ StrStrip(o.cname) # <<>>))
        /\ IF ~o.started /\ ~Catches("CalledProcessError", "FileNotFoundError")
           THEN /\ SetupIngressExcept("FileNotFoundError", console)
                /\ dnsStatus' = "raised"
                /\ UNCHANGED <<dnsAttempt, dnsSleeps, lastSleep>>
           ELSE IF o.started /\ (StrStrip(o.a) # <<>> \/ StrStrip(o.cname) # <<>>)
           THEN \* return True; setup_ingress goes on to its end
                /\ SetupIngressFinish(console \cup {"DNS records have propagated successfully"})
                /\ dnsStatus' = "propagated"
                /\ UNCHANGED <<dnsAttempt, dnsSleeps, lastSleep>>
           ELSE \* attempt += 1; progress.update; time.sleep(wait_time)
                /\ dnsAttempt' = dnsAttempt + 1
                /\ dnsSleeps' = dnsSleeps + 1
                /\ lastSleep' = wait_time
                /\ pc' = "dns_sleep"
                /\ UNCHANGED <<status, console, dnsStatus>>
    /\ cmds' = cmds \cup {"dig"}
    /\ UNCHANGED <<entry, intr, wait_time>>
    /\ UNCHANGED <<clsVars, aplVars, ingVars, eksVars>>
    /\ UNCHANGED <<cliVars, prompts, exit0, errVars, pipeVars>>
    /\ UNCHANGED approval

\* time.sleep(wait_time) returns; the wait grows; back to the loop test
DnsSleepDone ==
    /\ pc = "dns_sleep"
    /\ wait_time' = NextWait(wait_time)
    /\ pc' = "dns_loop"
    /\ UNCHANGED <<entry, status, console, intr, lastSleep>>
    /\ UNCHANGED <<dnsAttempt, dnsProbes, dnsSleeps, dnsStatus, dnsFound>>
    /\ UNCHANGED <<clsVars, aplVars, ingVars, eksVars, newVars>>
    /\ UNCHANGED approval

\* the loop of verify_dns_propagation ends
DnsTimeout ==
    /\ pc = "dns_loop"
    /\ ~PollLoopCond(dnsAttempt, DnsMaxAttempts)
    /\ DnsTimeoutReturn(console)
    /\ dnsStatus' = "timeout"
    /\ UNCHANGED <<entry, intr, lastSleep, dnsAttempt, dnsProbes, dnsSleeps, wait_time, dnsFound>>
    /\ UNCHANGED <<clsVars, aplVars, ingVars, eksVars, newVars>>
    /\ UNCHANGED approval

\* a KeyboardInterrupt is raised out of time.sleep(wait_time), outside the
\* try of verify_dns_propagation
DnsInterrupt ==
    /\ pc = "dns_sleep"
    /\ intr' = TRUE
    /\ SetupIngressExcept("KeyboardInterrupt", console)
    /\ dnsStatus' = "interrupted"
    /\ UNCHANGED <<entry, lastSleep, dnsAttempt, dnsProbes, dnsSleeps, wait_time, dnsFound>>
    /\ UNCHANGED <<clsVars, aplVars, ingVars, eksVars, newVars>>
    /\ UNCHANGED approval

\* ------------------------------------------------------------------------
\* wait_for_eks_cluster
\* ------------------------------------------------------------------------
Ready == <<"R", "e", "a", "d", "y">>

NodesNone == <<"N", "o", " ", "r", "e", "s", "o", "u", "r", "c", "e", "s">>
NodesNotReady == <<"n", "1", " ", "N", "o", "t", "R", "e", "a", "d", "y">>
NodesReady == <<"n", "1", " ", "R", "e", "a", "d", "y">>

\* what one `kubectl get nodes` does
KubectlNodesOutcomes ==
    {[started |-> FALSE, rc |-> 127, out |-> <<>>]}
    \cup {[started |-> TRUE, rc |-> 1, out |-> <<>>]}
    \cup {[started |-> TRUE, rc |-> 0, out |-> o] :
             o \in {<<>>, NodesNone, NodesNotReady, NodesReady}}

\* a test that takes every listing that exited 0 as ready
EksListingReadyAny(out) == TRUE

\* "Ready" in result.stdout
EksListingReady(out) == StrIn(Ready, out)

\* one round of the `while True` loop
EksProbe ==
    /\ pc = "eks_loop"
    /\ eksProbes < MaxEksProbes
    /\ eksProbes' = eksProbes + 1
    /\ cmds' = cmds \cup {"kubectl get nodes"}
    /\ \E o \in KubectlNodesOutcomes :
        IF ~o.started /\ ~Catches("CalledProcessError", "FileNotFoundError")
        THEN /\ Finish("wait_for_eks_cluster", "FileNotFoundError", console)
             /\ eksReady' = FALSE
             /\ UNCHANGED <<eksSleeps, lastSleep>>
        ELSE IF o.started /\ o.rc = 0
        THEN /\ eksReady' = StrIn(Ready, o.out)
             /\ IF EksListingReady(o.out)
                THEN \* break: the function returns
                     Finish("wait_for_eks_cluster", "none",
                            console \cup {"EKS cluster is ready."})
                ELSE \* the loop starts over at once
                     UNCHANGED <<pc, status, console>>
             /\ UNCHANGED <<eksSleeps, lastSleep>>
        ELSE \* except CalledProcessError: time.sleep(10); continue
             /\ eksReady' = FALSE
             /\ eksSleeps' = eksSleeps + 1
             /\ lastSleep' = EksPollDelay
             /\ pc' = "eks_sleep"
             /\ UNCHANGED <<status, console>>
    /\ UNCHANGED <<entry, intr>>
    /\ UNCHANGED <<clsVars, aplVars, ingVars, dnsVars>>
    /\ UNCHANGED <<cliVars, prompts, exit0, errVars, pipeVars>>
    /\ UNCHANGED approval

\* time.sleep(10) returns; `continue`
EksSleepDone ==
    /\ pc = "eks_sleep"
    /\ pc' = "eks_loop"
    /\ UNCHANGED <<entry, status, console, intr, lastSleep>>
    /\ UNCHANGED <<clsVars, aplVars, ingVars, dnsVars, eksVars, newVars>>
    /\ UNCHANGED approval

\* a KeyboardInterrupt is raised out of time.sleep(10), inside the
\* `except subprocess.CalledProcessError` clause
EksInterrupt ==
    /\ pc = "eks_sleep"
    /\ intr' = TRUE
    /\ Finish("wait_for_eks_cluster", "KeyboardInterrupt", console)
    /\ UNCHANGED <<entry, lastSleep>>
    /\ UNCHANGED <<clsVars, aplVars, ingVars, dnsVars, eksVars, newVars>>
    /\ UNCHANGED approval

\* ------------------------------------------------------------------------
\* External commands run to completion
\* ------------------------------------------------------------------------
\* what a command run with captured output does: it cannot be started, or
\* it exits with rc having written err to stderr
CmdOutcomes ==
    {[started |-> FALSE, rc |-> 127, err |-> <<>>]}
    \cup {[started |-> TRUE, rc |-> 0, err |-> <<>>]}
    \cup {[started |-> TRUE, rc |-> 1, err |-> e] : e \in {<<>>, Denied}}

\* the exception subprocess.run(..., check=True) raises for the outcome o
RunExc(o) ==
    IF ~o.started THEN "FileNotFoundError"
    ELSE IF o.rc # 0 THEN "CalledProcessError"
    ELSE "none"

\* the record of a command that exited nonzero and made its step abort
Failed(cmd, o, shown) == [cmd |-> cmd, err |-> o.err, shown |-> shown]

\* run_command_with_spinner on a command with outcome o: the exception that
\* leaves it, what it prints, and whether the captured stderr was printed
run_command_with_spinner(o, message, error_message) ==
    IF Catches("CalledProcessError", RunExc(o))
    THEN [exc |-> "Abort",
          printed |-> {error_message}
                      \cup (IF o.err # <<>> THEN {"Error details: stderr"} ELSE {}),
          shown |-> o.err # <<>>]
    ELSE IF RunExc(o) # "none"
    THEN [exc |-> RunExc(o), printed |-> {}, shown |-> FALSE]
    ELSE [exc |-> "none", printed |-> {message}, shown |-> FALSE]

\* ------------------------------------------------------------------------
\* install: welcome, prerequisites question, check_aws_permissions
\* ------------------------------------------------------------------------
\* display_welcome_message, then confirm_prerequisites unless
\* non_interactive, then the rule of step 1
InstallStart ==
    /\ pc = "in_start"
    /\ \E answer \in {"yes", "no", "eof"} :
        /\ non_interactive => answer = "yes"
        /\ CASE answer = "yes" ->
                  /\ pc' = "perm"
                  /\ status' = status
                  /\ console' = console \cup {"Welcome", "Step 1: Checking AWS Permissions"}
                  /\ steps' = Append(steps, "check_aws_permissions")
             [] answer = "no" ->
                  /\ Raise("install", "Abort",
                           console \cup {"Welcome", "Please ensure all prerequisites are met"})
                  /\ steps' = steps
             [] answer = "eof" ->
                  /\ Raise("install", "Abort", console \cup {"Welcome"})
                  /\ steps' = steps
    /\ prompts' = (IF non_interactive THEN prompts
                   ELSE prompts \cup {"Do you have all prerequisites ready?"})
    /\ UNCHANGED <<entry, intr, lastSleep, non_interactive, force, typed>>
    /\ UNCHANGED <<clsVars, aplVars, ingVars, dnsVars, eksVars>>
    /\ UNCHANGED <<cmds, exit0, errVars, pipeVars>>
    /\ UNCHANGED approval

\* check_aws_permissions("1"): clone_repo and run_permissions_script; then
\* the rule of step 2 and the pause before run_terraform_setup
CheckAwsPermissions ==
    /\ pc = "perm"
    /\ \E cloned \in BOOLEAN, g \in CmdOutcomes, script \in BOOLEAN,
          c \in CmdOutcomes, o \in CmdOutcomes :
        LET ran0 == IF cloned THEN {} ELSE {"git clone"}
            con0 == console \cup {"Running permissions checker script"}
        IN IF ~cloned /\ RunExc(g) # "none"
           THEN \* git clone failed: its stderr went to the terminal
                /\ Raise("check_aws_permissions", RunExc(g), console)
                /\ cmds' = cmds \cup ran0
                /\ UNCHANGED <<prompts, failure, steps>>
           ELSE IF ~script
           THEN /\ Raise("check_aws_permissions", "FileNotFoundError", console)
                /\ cmds' = cmds \cup ran0
                /\ UNCHANGED <<prompts, failure, steps>>
           ELSE IF RunExc(c) # "none"
           THEN /\ Raise("check_aws_permissions", RunExc(c), con0)
                /\ cmds' = cmds \cup ran0 \cup {"chmod"}
                /\ UNCHANGED <<prompts, failure, steps>>
           ELSE IF ~o.started
           THEN /\ Raise("check_aws_permissions", "FileNotFoundError",
                         con0 \cup {"Unexpected error"})
                /\ cmds' = cmds \cup ran0 \cup {"chmod", "permissions.sh"}
                /\ UNCHANGED <<prompts, failure, steps>>
           ELSE IF o.rc # 0
           THEN \* click.echo(stdout); if stderr: click.echo(stderr)
                /\ Raise("check_aws_permissions", "CalledProcessError",
                         con0 \cup (IF o.err # <<>> THEN {"permissions.sh: stderr"} ELSE {})
                              \cup {"Error running the permissions check"})
                /\ cmds' = cmds \cup ran0 \cup {"chmod", "permissions.sh"}
                /\ failure' = Failed("permissions.sh", o, o.err # <<>>)
                /\ UNCHANGED <<prompts, steps>>
           ELSE /\ cmds' = cmds \cup ran0 \cup {"chmod", "permissions.sh"}
                /\ failure' = failure
                /\ prompts' = (IF non_interactive THEN prompts
                               ELSE prompts \cup {"Press any key to begin infrastructure setup"})
                /\ pc' = "ts_start"
                /\ status' = status
                /\ console' = con0 \cup {"Permissions check completed successfully!",
                                         "Step 2: Setting up Infrastructure"}
                /\ steps' = Append(steps, "run_terraform_setup")
    /\ UNCHANGED <<entry, intr, lastSleep, non_interactive, force, typed>>
    /\ UNCHANGED <<clsVars, aplVars, ingVars, dnsVars, eksVars>>
    /\ UNCHANGED <<exit0, helmOutputs, pipeVars>>
    /\ UNCHANGED approval

\* ------------------------------------------------------------------------
\* run_terraform_setup
\* ------------------------------------------------------------------------
\* what a terraform subprocess read through its pipes does: it cannot be
\* started, or it exits with rc having written err to stderr
TerraformOutcomes == CmdOutcomes

\* check_prerequisites and check_terraform_installed
TsCheckPrerequisites ==
    /\ pc = "ts_start"
    /\ \E found \in {"no_repo", "no_files", "all"}, o \in CmdOutcomes,
          v \in {"no_binary", "empty", "version"} :
        LET con0 == console \cup {"Starting Terraform Setup", "Checking Prerequisites"}
            aws == "aws sts get-caller-identity"
        IN IF found = "no_repo"
           THEN /\ Raise("run_terraform_setup", "Abort",
                         con0 \cup {"Repository directory not found!"})
                /\ UNCHANGED <<cmds, failure>>
           ELSE IF found = "no_files"
           THEN /\ Raise("run_terraform_setup", "Abort",
                         con0 \cup {"Missing required files"})
                /\ UNCHANGED <<cmds, failure>>
           ELSE IF \/ Catches("CalledProcessError", RunExc(o))
                   \/ Catches("FileNotFoundError", RunExc(o))
           THEN \* the clause prints its own sentence, not the captured stderr
                /\ Raise("run_terraform_setup", "Abort",
                         con0 \cup {"AWS credentials not configured or invalid."})
                /\ cmds' = cmds \cup {aws}
                /\ failure' = (IF o.started THEN Failed(aws, o, FALSE) ELSE failure)
           ELSE /\ cmds' = cmds \cup {aws, "terraform --version"}
                /\ failure' = failure
                /\ CASE v = "no_binary" ->
                          Raise("run_terraform_setup", "Abort",
                                con0 \cup {"Terraform is not installed."})
                     [] v = "empty" ->
                          \* output.splitlines()[0] on an empty output
                          Raise("run_terraform_setup", "IndexError", con0)
                     [] v = "version" ->
                          /\ pc' = "ts_init"
                          /\ status' = status
                          /\ console' = con0 \cup {"Terraform Installation"}
    /\ UNCHANGED <<entry, intr, lastSleep>>
    /\ UNCHANGED <<clsVars, aplVars, ingVars, dnsVars, eksVars>>
    /\ UNCHANGED <<cliVars, prompts, exit0, helmOutputs, pipeVars>>
    /\ UNCHANGED approval

\* stream_subprocess_output for a subprocess with outcome o that lets the
\* readout finish: the exception that leaves it and what it prints
stream_subprocess_output(o) ==
    IF o.rc # 0
    THEN [exc |-> "Abort", printed |-> {"Terraform init failed: stderr",
                                        "Error during Terraform init"}]
    ELSE [exc |-> "none", printed |-> {}]

\* run_terraform_init
TsInit ==
    /\ pc = "ts_init"
    /\ cmds' = cmds \cup {"terraform init"}
    /\ \E o \in TerraformOutcomes :
        LET con0 == console \cup {"Initializing Terraform"}
            r == stream_subprocess_output(o)
        IN IF ~o.started
           THEN /\ Raise("run_terraform_setup", "FileNotFoundError", con0)
                /\ UNCHANGED <<exit0, failure>>
           ELSE IF r.exc # "none"
           THEN /\ Raise("run_terraform_setup", r.exc, con0 \cup r.printed)
                /\ failure' = Failed("terraform init", o, TRUE)
                /\ UNCHANGED exit0
           ELSE /\ pc' = "ts_preview"
                /\ status' = status
                /\ console' = con0 \cup {"Terraform initialization completed successfully."}
                /\ exit0' = exit0 \cup {"terraform init"}
                /\ UNCHANGED failure
    /\ UNCHANGED <<entry, intr, lastSleep>>
    /\ UNCHANGED <<clsVars, aplVars, ingVars, dnsVars, eksVars>>
    /\ UNCHANGED <<cliVars, prompts, helmOutputs, pipeVars>>
    /\ UNCHANGED approval

\* preview_terraform_files: it takes no argument and always asks
TsPreview ==
    /\ pc = "ts_preview"
    /\ \E preview \in {"yes", "no", "eof"}, edit \in {"yes", "no", "eof"} :
        CASE preview = "no" ->
               /\ prompts' = prompts \cup {"Do you want to preview the Terraform files?"}
               /\ pc' = "ts_plan"
               /\ UNCHANGED <<status, console>>
          [] preview = "eof" ->
               /\ prompts' = prompts \cup {"Do you want to preview the Terraform files?"}
               /\ Raise("run_terraform_setup", "Abort", console)
          [] preview = "yes" /\ edit = "eof" ->
               /\ prompts' = prompts \cup {"Do you want to preview the Terraform files?",
                                           "Would you like to edit any of the Terraform files?"}
               /\ Raise("run_terraform_setup", "Abort", console \cup {"main.tf"})
          [] preview = "yes" /\ edit = "no" ->
               /\ prompts' = prompts \cup {"Do you want to preview the Terraform files?",
                                           "Would you like to edit any of the Terraform files?"}
               /\ pc' = "ts_plan"
               /\ status' = status
               /\ console' = console \cup {"main.tf", "Continuing with Terraform plan..."}
          [] preview = "yes" /\ edit = "yes" ->
               \* edit_terraform_files: the operator edits and chooses to go on
               /\ prompts' = prompts \cup {"Do you want to preview the Terraform files?",
                                           "Would you like to edit any of the Terraform files?",
                                           "Which file would you like to edit?"}
               /\ pc' = "ts_plan"
               /\ status' = status
               /\ console' = console \cup {"main.tf"}
    /\ UNCHANGED <<entry, intr, lastSleep>>
    /\ UNCHANGED <<clsVars, aplVars, ingVars, dnsVars, eksVars>>
    /\ UNCHANGED <<cliVars, cmds, exit0, errVars, pipeVars>>
    /\ UNCHANGED approval

\* run_terraform_plan, then the call of run_terraform_apply(auto_approve)
TsPlan ==
    /\ pc = "ts_plan"
    /\ cmds' = cmds \cup {"terraform plan"}
    /\ \E o \in TerraformOutcomes :
        LET con0 == console \cup {"Planning Terraform Changes"}
        IN IF ~o.started
           THEN /\ Raise("run_terraform_setup", "FileNotFoundError", con0)
                /\ UNCHANGED <<exit0, failure>>
           ELSE IF o.rc # 0
           THEN /\ Raise("run_terraform_setup", "Abort",
                         con0 \cup {"Terraform plan failed: stderr"})
                /\ failure' = Failed("terraform plan", o, TRUE)
                /\ UNCHANGED exit0
           ELSE /\ pc' = "apply_start"
                /\ status' = status
                /\ console' = con0 \cup {"Terraform plan completed successfully."}
                /\ exit0' = exit0 \cup {"terraform plan"}
                /\ UNCHANGED failure
    /\ auto_approve' = (IF entry = "install" THEN non_interactive ELSE auto_approve)
    /\ max_retries' = DefaultMaxRetries
    /\ UNCHANGED <<entry, intr, lastSleep>>
    /\ UNCHANGED <<retries, applyCalls, applySleeps, lastRc>>
    /\ UNCHANGED <<clsVars, ingVars, dnsVars, eksVars>>
    /\ UNCHANGED <<cliVars, prompts, helmOutputs, pipeVars>>
    /\ UNCHANGED approval

\* run_terraform_apply has returned: the last line of run_terraform_setup;
\* in install, the rule of step 3, the pause and the two questions
TsReturn ==
    /\ pc = "ts_return"
    /\ \E answer \in {"typed", "eof"} :
        LET con0 == console \cup {"Terraform setup completed successfully!"}
            asked == IF non_interactive THEN {}
                     ELSE {"Press any key to begin control plane deployment",
                           "Enter your domain name for the control plane",
                           "Enter your email for SSL certificates"}
        IN IF entry = "run_terraform_setup"
           THEN /\ Finish("run_terraform_setup", "none", con0)
                /\ UNCHANGED <<prompts, steps>>
           ELSE IF ~non_interactive /\ answer = "eof"
           THEN /\ Raise("install", "Abort",
                         con0 \cup {"Step 3: Deploying Control Plane"})
                /\ prompts' = prompts \cup asked
                /\ steps' = steps
           ELSE /\ pc' = "dh_start"
                /\ status' = status
                /\ console' = con0 \cup {"Step 3: Deploying Control Plane"}
                /\ prompts' = prompts \cup asked
                /\ steps' = Append(steps, "deploy_helm_charts")
    \* the locals of the finished run_terraform_apply are gone
    /\ retries' = 0
    /\ applyCalls' = 0
    /\ applySleeps' = 0
    /\ lastRc' = 0
    /\ error_text' = <<>>
    /\ classified' = FALSE
    /\ retryable' = FALSE
    /\ lastSleep' = 0
    /\ UNCHANGED <<entry, intr, auto_approve, max_retries>>
    /\ UNCHANGED <<ingVars, dnsVars, eksVars>>
    /\ UNCHANGED <<non_interactive, force, typed, cmds, exit0, errVars, pipeVars>>
    /\ UNCHANGED approval

\* ------------------------------------------------------------------------
\* deploy_helm_charts
\* ------------------------------------------------------------------------
\* the names bound in the module selfhost_cli.commands.helm: its imports,
\* its global and its functions
HelmModuleNames ==
    {"subprocess", "time", "click", "Console", "Progress", "SpinnerColumn",
     "TextColumn", "console", "run_command_with_spinner", "setup_kubeconfig",
     "wait_for_eks_cluster", "login_to_helm_registry", "install_crds",
     "install_helm_chart", "verify_helm_installation", "deploy_helm_charts"}

\* the exception raised by evaluating the global name in that module
NameLookup(name) == IF name \in HelmModuleNames THEN "none" ELSE "NameError"

\* the inner try of deploy_helm_charts, q being what `terraform output
\* -json` would do: whether the query was made, which of the two values it
\* gave, what was printed
HelmClusterInfo(q) ==
    LET lookup == IF NameLookup("get_terraform_outputs") # "none"
                  THEN NameLookup("get_terraform_outputs")
                  ELSE NameLookup("TERRAFORM_DIR")
        g == get_terraform_outputs(q)
        exc == IF lookup # "none" THEN lookup ELSE g.exc
        made == lookup = "none"
    IN IF exc # "none" /\ Catches("Exception", exc)
       THEN [exc |-> "none", query |-> IF made THEN q ELSE "not asked",
             name |-> FALSE, region |-> FALSE,
             printed |-> {"Could not automatically retrieve cluster information."}]
       ELSE IF exc # "none"
       THEN [exc |-> exc, query |-> q, name |-> FALSE, region |-> FALSE, printed |-> {}]
       ELSE [exc |-> "none", query |-> q,
             name |-> g.value # <<>> /\ "eks_cluster_name" \in DOMAIN g.value,
             region |-> g.value # <<>> /\ "region" \in DOMAIN g.value,
             printed |-> g.printed \cup {"Using cluster"}]

\* the start of deploy_helm_charts(domain=domain, email=email): the inner
\* try and setup_kubeconfig
HelmKubeconfig ==
    /\ pc = "dh_start"
    /\ \E q \in OutputsOutcomes, answer \in {"typed", "eof"}, o \in CmdOutcomes :
        LET info == HelmClusterInfo(q)
            asked == (IF info.name THEN {} ELSE {"Enter your EKS cluster name"})
                     \cup (IF info.region THEN {} ELSE {"Enter your AWS region"})
            con0 == console \cup info.printed \cup {"Setting up Kubernetes Configuration"}
            kube == "aws eks update-kubeconfig"
            r == run_command_with_spinner(o, "Setting up kubeconfig completed successfully.",
                                          "Failed to set up kubeconfig.")
        IN /\ helmOutputs' = info.query
           /\ prompts' = prompts \cup asked
           /\ IF asked # {} /\ answer = "eof"
              THEN /\ Raise("deploy_helm_charts", "Abort", con0)
                   /\ cmds' = cmds \cup (IF info.query = "not asked" THEN {}
                                         ELSE {"terraform output -json"})
                   /\ UNCHANGED failure
              ELSE /\ cmds' = cmds \cup {kube}
                               \cup (IF info.query = "not asked" THEN {}
                                     ELSE {"terraform output -json"})
                   /\ IF r.exc # "none"
                      THEN /\ Raise("deploy_helm_charts", r.exc, con0 \cup r.printed)
                           /\ failure' = (IF o.started THEN Failed(kube, o, r.shown)
                                          ELSE failure)
                      ELSE /\ pc' = "eks_loop"
                           /\ status' = status
                           /\ console' = con0 \cup r.printed
                           /\ UNCHANGED failure
    /\ UNCHANGED <<entry, intr, lastSleep>>
    /\ UNCHANGED <<clsVars, aplVars, ingVars, dnsVars, eksVars>>
    /\ UNCHANGED <<cliVars, exit0, pipeVars>>
    /\ UNCHANGED approval

\* the commands deploy_helm_charts runs after the cluster is ready, in order
HelmCommands ==
    <<"helm registry login", "helm install dz-control-plane-crds",
      "helm install dz-control-plane", "kubectl get pods">>

HelmDone ==
    <<"Logging in to Helm registry completed successfully.",
      "Installing CRDs completed successfully.",
      "Installing Helm chart completed successfully.",
      "All pods are running.">>

HelmFailed ==
    <<"Failed to log in to Helm registry.", "Failed to install CRDs.",
      "Failed to install the Helm chart.", "Failed to verify installation.">>

\* wait_for_eks_cluster has returned: the two questions for the registry
\* credentials, asked always
HelmCredentials ==
    /\ pc = "dh_after_eks"
    /\ prompts' = prompts \cup {"Enter your Helm registry username",
                                "Enter your Helm registry password"}
    /\ \E cred \in {"typed", "eof"} :
        IF cred = "eof"
        THEN Raise("deploy_helm_charts", "Abort",
                   console \cup {"Helm Registry Authentication"})
        ELSE /\ pc' = "dh_login"
             /\ status' = status
             /\ console' = console \cup {"Helm Registry Authentication"}
    \* the locals of the finished wait_for_eks_cluster are gone
    /\ eksProbes' = 0
    /\ eksSleeps' = 0
    /\ eksReady' = FALSE
    /\ lastSleep' = 0
    /\ UNCHANGED <<entry, intr>>
    /\ UNCHANGED <<clsVars, aplVars, ingVars, dnsVars>>
    /\ UNCHANGED <<cliVars, cmds, exit0, errVars, pipeVars>>
    /\ UNCHANGED approval

\* the registry login, install_crds, install_helm_chart and
\* verify_helm_installation: k commands exit 0, the next has outcome o;
\* then, in install, setup_ingress(domain) if domain, else the final panel
HelmDeploy ==
    /\ pc = "dh_login"
    /\ \E k \in 0..3, o \in CmdOutcomes, chart \in {"typed", "eof"},
          pods \in {"Running", "Pending"} :
        LET \* install_helm_chart asks when it was passed no domain
            chartAsked == IF non_interactive
                          THEN {"Enter your domain name for the control plane",
                                "Enter your email for the certificate issuer"}
                          ELSE {}
            r == run_command_with_spinner(o, HelmDone[k + 1], HelmFailed[k + 1])
            done == {HelmDone[i] : i \in 1..k}
            lastDone == IF k = 3 /\ pods # "Running"
                        THEN {"Some pods are not running."} ELSE r.printed
        IN /\ k < 3 => RunExc(o) # "none"
           /\ IF k >= 2 /\ chartAsked # {} /\ chart = "eof"
              THEN /\ Raise("deploy_helm_charts", "Abort",
                            console \cup {HelmDone[1], HelmDone[2]})
                   /\ prompts' = prompts \cup chartAsked
                   /\ cmds' = cmds \cup {HelmCommands[1], HelmCommands[2]}
                   /\ UNCHANGED <<failure, steps>>
              ELSE /\ prompts' = prompts \cup (IF k >= 2 THEN chartAsked ELSE {})
                   /\ cmds' = cmds \cup {HelmCommands[i] : i \in 1..(k + 1)}
                   /\ IF r.exc # "none"
                      THEN /\ Raise("deploy_helm_charts", r.exc,
                                    console \cup done \cup r.printed)
                           /\ failure' = (IF o.started
                                          THEN Failed(HelmCommands[k + 1], o, r.shown)
                                          ELSE failure)
                           /\ steps' = steps
                      ELSE LET con1 == console \cup done \cup lastDone
                                           \cup {"Helm deployment completed successfully!"}
                           IN /\ failure' = failure
                              /\ IF non_interactive
                                 THEN \* domain is None: no setup_ingress
                                      /\ Finish("install", "none",
                                                con1 \cup {"Installation Complete"})
                                      /\ steps' = steps
                                 ELSE /\ pc' = "in_ingress"
                                      /\ status' = status
                                      /\ console' = con1
                                      /\ steps' = Append(steps, "setup_ingress")
    /\ UNCHANGED <<entry, intr, lastSleep>>
    /\ UNCHANGED <<clsVars, aplVars, ingVars, dnsVars, eksVars>>
    /\ UNCHANGED <<non_interactive, force, typed, exit0, helmOutputs, pipeVars>>
    /\ UNCHANGED approval

\* the commands of setup_ingress in the order of their first invocation
IngressCommands == <<"terraform output -json NAME", "kubectl get ingress", "dig">>

\* install calls setup_ingress(domain) and prints its final panel. The call
\* is followed as a whole here: setup_ingress returns, or its `except
\* Exception` clause raises click.Abort, or a KeyboardInterrupt out of one
\* of its sleeps passes through; n of its commands were invoked
InstallIngress ==
    /\ pc = "in_ingress"
    /\ \E exc \in {"none", "Abort", "KeyboardInterrupt"}, n \in 1..3 :
        /\ (exc # "Abort") => n >= 2
        /\ cmds' = cmds \cup {IngressCommands[i] : i \in 1..n}
        /\ prompts' = prompts
              \cup (IF n = 3 \/ exc = "none"
                    THEN {"Would you like to wait for DNS propagation?"} ELSE {})
        /\ intr' = (exc = "KeyboardInterrupt")
        /\ CASE exc = "none" ->
                  Finish("install", "none",
                         console \cup {"Setup Complete!", "Installation Complete"})
             [] exc = "Abort" ->
                  Raise("install", "Abort", console \cup {"Error during ingress setup"})
             [] exc = "KeyboardInterrupt" ->
                  Raise("install", "KeyboardInterrupt", console)
    /\ UNCHANGED <<entry, lastSleep>>
    /\ UNCHANGED <<clsVars, aplVars, ingVars, dnsVars, eksVars>>
    /\ UNCHANGED <<cliVars, exit0, errVars, pipeVars>>
    /\ UNCHANGED approval

\* ------------------------------------------------------------------------
\* destroy_resources
\* ------------------------------------------------------------------------
AsciiLower ==
    "A" :> "a" @@ "B" :> "b" @@ "C" :> "c" @@ "D" :> "d" @@ "E" :> "e"
    @@ "F" :> "f" @@ "G" :> "g" @@ "H" :> "h" @@ "I" :> "i" @@ "J" :> "j"
    @@ "K" :> "k" @@ "L" :> "l" @@ "M" :> "m" @@ "N" :> "n" @@ "O" :> "o"
    @@ "P" :> "p" @@ "Q" :> "q" @@ "R" :> "r" @@ "S" :> "s" @@ "T" :> "t"
    @@ "U" :> "u" @@ "V" :> "v" @@ "W" :> "w" @@ "X" :> "x" @@ "Y" :> "y"
    @@ "Z" :> "z"

\* str.lower() on the texts of the model
str_lower(s) ==
    [i \in 1..Len(s) |-> IF s[i] \in DOMAIN AsciiLower THEN AsciiLower[s[i]] ELSE s[i]]

DestroyWord == <<"d", "e", "s", "t", "r", "o", "y">>

\* what the operator may type at "Type 'destroy' to confirm"; the empty
\* text is the default of the prompt
TypedTexts ==
    {<<>>, DestroyWord,
     <<"D", "E", "S", "T", "R", "O", "Y">>,
     <<"D", "e", "s", "t", "r", "o", "Y">>,
     <<"d", "e", "s", "t", "r", "o">>,
     <<"d", "e", "s", "t", "r", "o", "y", "!">>,
     <<" ", "d", "e", "s", "t", "r", "o", "y">>,
     <<"y", "e", "s">>,
     <<"y">>}

\* a test that also lets the empty default through
confirmation_accepted_or_default(text) == text = <<>> \/ str_lower(text) = DestroyWord

\* not (confirmation_text.lower() != "destroy")
confirmation_accepted(text) == str_lower(text) = DestroyWord

\* `if not force: confirm_destruction()`
DestroyConfirm ==
    /\ pc = "ds_start"
    /\ IF force
       THEN /\ pc' = "ds_prereq"
            /\ UNCHANGED <<status, console, prompts, typed>>
       ELSE /\ prompts' = prompts \cup {"Type 'destroy' to confirm"}
            /\ \E answer \in {"typed", "eof"}, t \in TypedTexts :
                LET con0 == console \cup {"WARNING: Resource Destruction"}
                IN IF answer = "eof"
                   THEN /\ Raise("destroy_resources", "Abort", con0)
                        /\ typed' = typed
                   ELSE /\ typed' = t
                        /\ IF confirmation_accepted(t)
                           THEN /\ pc' = "ds_prereq"
                                /\ status' = status
                                /\ console' = con0
                           ELSE Raise("destroy_resources", "Abort",
                                      con0 \cup {"Destruction cancelled."})
    /\ UNCHANGED <<entry, intr, lastSleep, non_interactive, force, steps>>
    /\ UNCHANGED <<clsVars, aplVars, ingVars, dnsVars, eksVars>>
    /\ UNCHANGED <<cmds, exit0, errVars, pipeVars>>
    /\ UNCHANGED approval

\* check_prerequisites of destroy.py
DestroyPrerequisites ==
    /\ pc = "ds_prereq"
    /\ \E dir \in BOOLEAN, o \in CmdOutcomes :
        LET con0 == console \cup {"Checking Prerequisites"}
            aws == "aws sts get-caller-identity"
        IN IF ~dir
           THEN /\ Raise("destroy_resources", "Abort",
                         con0 \cup {"Terraform directory not found!"})
                /\ UNCHANGED <<cmds, exit0, failure>>
           ELSE /\ cmds' = cmds \cup {aws}
                /\ exit0' = exit0 \cup (IF RunExc(o) = "none" THEN {aws} ELSE {})
                /\ IF Catches("CalledProcessError", RunExc(o))
                   THEN \* the clause prints its own sentence, not the captured stderr
                        /\ Raise("destroy_resources", "Abort",
                                 con0 \cup {"AWS credentials not configured or invalid."})
                        /\ failure' = Failed(aws, o, FALSE)
                   ELSE IF RunExc(o) # "none"
                   THEN /\ Raise("destroy_resources", RunExc(o), con0)
                        /\ UNCHANGED failure
                   ELSE /\ pc' = "ds_cleanup"
                        /\ status' = status
                        /\ console' = con0
                        /\ UNCHANGED failure
    /\ UNCHANGED <<entry, intr, lastSleep>>
    /\ UNCHANGED <<clsVars, aplVars, ingVars, dnsVars, eksVars>>
    /\ UNCHANGED <<cliVars, prompts, helmOutputs, pipeVars>>
    /\ UNCHANGED approval

\* the commands of cleanup_helm_resources, in order
CleanupCommands ==
    <<"helm uninstall dz-control-plane", "helm uninstall dz-control-plane-crds",
      "kubectl delete namespace devzero">>

\* the exception subprocess.run(..., check=False) raises for the outcome o
CleanupRunExc(o) == IF ~o.started THEN "FileNotFoundError" ELSE "none"

\* a clause that takes a failed command only
CleanupTakesCalledProcessError(exc) == Catches("CalledProcessError", exc)

\* the `except Exception` clause of cleanup_helm_resources takes exc
CleanupTakes(exc) == Catches("Exception", exc)

\* cleanup_helm_resources: k commands run whatever their exit status, the
\* next one has outcome o
DestroyCleanup ==
    /\ pc = "ds_cleanup"
    /\ \E k \in 0..2, o \in CmdOutcomes :
        LET con0 == console \cup {"Cleaning up Helm Resources"}
            exc == CleanupRunExc(o)
        IN /\ cmds' = cmds \cup {CleanupCommands[i] : i \in 1..(k + 1)}
           /\ k < 2 => exc # "none"
           /\ IF exc = "none"
              THEN /\ pc' = "ds_terraform"
                   /\ status' = status
                   /\ console' = con0 \cup {"Helm resources cleaned up successfully"}
              ELSE IF CleanupTakes(exc)
              THEN \* the warning; the destruction goes on
                   /\ pc' = "ds_terraform"
                   /\ status' = status
                   /\ console' = con0 \cup {"Warning during Helm cleanup"}
              ELSE Raise("destroy_resources", exc, con0)
    /\ UNCHANGED <<entry, intr, lastSleep>>
    /\ UNCHANGED <<clsVars, aplVars, ingVars, dnsVars, eksVars>>
    /\ UNCHANGED <<cliVars, prompts, exit0, errVars, pipeVars>>
    /\ UNCHANGED approval

\* a test that takes every exit status for success
DestroyFailedNever(returncode) == FALSE

\* if process.returncode != 0
DestroyFailed(returncode) == returncode # 0

\* run_terraform_destroy, then the last print of destroy_resources
DestroyTerraform ==
    /\ pc = "ds_terraform"
    /\ cmds' = cmds \cup {"terraform destroy -auto-approve"}
    /\ \E o \in TerraformOutcomes :
        LET con0 == console \cup {"Destroying AWS Infrastructure"}
        IN /\ exit0' = exit0 \cup (IF o.started /\ o.rc = 0
                                   THEN {"terraform destroy -auto-approve"} ELSE {})
           /\ failure' = (IF o.started /\ o.rc # 0
                          THEN Failed("terraform destroy -auto-approve", o,
                                      DestroyFailed(o.rc))
                          ELSE failure)
           /\ IF ~o.started
              THEN \* FileNotFoundError, taken by the except Exception clause
                   Raise("destroy_resources", "Abort",
                         con0 \cup {"Error during terraform destroy"})
              ELSE IF DestroyFailed(o.rc)
              THEN Raise("destroy_resources", "Abort",
                         con0 \cup {"Terraform destroy failed: stderr",
                                    "Error during terraform destroy"})
              ELSE Finish("destroy_resources", "none",
                          con0 \cup {"AWS resources destroyed successfully",
                                     "Cleanup Complete!"})
    /\ UNCHANGED <<entry, intr, lastSleep>>
    /\ UNCHANGED <<clsVars, aplVars, ingVars, dnsVars, eksVars>>
    /\ UNCHANGED <<cliVars, prompts, helmOutputs, pipeVars>>
    /\ UNCHANGED approval

\* ------------------------------------------------------------------------
\* stream_subprocess_output: the parent and the subprocess, two pipes
\* ------------------------------------------------------------------------
\* the subprocess writes its next line; the write blocks while the pipe of
\* that stream is full
ChildWrite ==
    /\ entry = "stream_subprocess_output"
    /\ ~child.exited
    /\ child.prog # <<>>
    /\ pipes[Head(child.prog)] < PipeCapacity
    /\ pipes' = [pipes EXCEPT ![Head(child.prog)] = @ + 1]
    /\ child' = [child EXCEPT !.prog = Tail(@)]
    /\ UNCHANGED <<ctlVars, clsVars, aplVars, ingVars, dnsVars, eksVars>>
    /\ UNCHANGED <<cliVars, obsVars, errVars>>
    /\ UNCHANGED approval

\* the subprocess has written everything: it exits, closing both streams
ChildExit ==
    /\ entry = "stream_subprocess_output"
    /\ ~child.exited
    /\ child.prog = <<>>
    /\ child' = [child EXCEPT !.exited = TRUE]
    /\ UNCHANGED <<ctlVars, clsVars, aplVars, ingVars, dnsVars, eksVars>>
    /\ UNCHANGED <<cliVars, obsVars, errVars, pipes>>
    /\ UNCHANGED approval

\* process.stdout.readline() returns a line
ReadStdoutLine ==
    /\ pc = "rd_stdout"
    /\ pipes.out > 0
    /\ pipes' = [pipes EXCEPT !.out = @ - 1]
    /\ console' = console \cup {"line"}
    /\ UNCHANGED <<entry, pc, status, intr, lastSleep>>
    /\ UNCHANGED <<clsVars, aplVars, ingVars, dnsVars, eksVars>>
    /\ UNCHANGED <<cliVars, obsVars, errVars, child>>
    /\ UNCHANGED approval

\* process.stdout.readline() returns "": stdout is empty and closed
ReadStdoutEof ==
    /\ pc = "rd_stdout"
    /\ pipes.out = 0
    /\ child.exited
    /\ pc' = "rd_wait"
    /\ UNCHANGED <<entry, status, console, intr, lastSleep>>
    /\ UNCHANGED <<clsVars, aplVars, ingVars, dnsVars, eksVars, newVars>>
    /\ UNCHANGED approval

\* process.wait() returns; on a nonzero status process.stderr.read()
ReadoutWait ==
    /\ pc = "rd_wait"
    /\ child.exited
    /\ LET r == stream_subprocess_output(child)
       IN /\ Finish("stream_subprocess_output", r.exc, console \cup r.printed)
          /\ pipes' = (IF child.rc # 0 THEN [pipes EXCEPT !.err = 0] ELSE pipes)
    /\ UNCHANGED <<entry, intr, lastSleep>>
    /\ UNCHANGED <<clsVars, aplVars, ingVars, dnsVars, eksVars>>
    /\ UNCHANGED <<cliVars, obsVars, errVars, child>>
    /\ UNCHANGED approval

Next ==
    \/ Classify
    \/ ApplyConfirm
    \/ ApplyAttempt
    \/ ApplyLoopExit
    \/ ApplySleepDone
    \/ ApplyInterrupt
    \/ SetupIngressStart
    \/ IngProbe
    \/ IngSleepDone
    \/ IngTimeout
    \/ IngInterrupt
    \/ SetupIngressConfirm
    \/ DnsProbe
    \/ DnsSleepDone
    \/ DnsTimeout
    \/ DnsInterrupt
    \/ EksProbe
    \/ EksSleepDone
    \/ EksInterrupt
    \/ InstallStart
    \/ CheckAwsPermissions
    \/ TsCheckPrerequisites
    \/ TsInit
    \/ TsPreview
    \/ TsPlan
    \/ TsReturn
    \/ HelmKubeconfig
    \/ HelmCredentials
    \/ HelmDeploy
    \/ InstallIngress
    \/ DestroyConfirm
    \/ DestroyPrerequisites
    \/ DestroyCleanup
    \/ DestroyTerraform
    \/ ChildWrite
    \/ ChildExit
    \/ ReadStdoutLine
    \/ ReadStdoutEof
    \/ ReadoutWait

Spec == Init /\ [][Next]_vars

\* ------------------------------------------------------------------------
\* Properties
\* ------------------------------------------------------------------------
\* ------------------------------------------------------------------------
\* the text is prefix \o marker \o suffix for one of the five markers
HasMarker(text) ==
    \E m \in MarkerSet : \E i \in 0..Len(text) :
        /\ i + Len(m) <= Len(text)
        /\ text = SubSeq(text, 1, i) \o m \o SubSeq(text, i + Len(m) + 1, Len(text))

\* C1: is_retryable_error(text) returns true if and only if one of the five
\* markers occurs in text as an exact, case-sensitive substring; it returns
\* false for the empty text and for a marker in another letter case.
C1_ClassifierIffMarker ==
    classified => (retryable <=> HasMarker(error_text))

\* a marker embedded in a larger token was classified retryable
C1_Witness ==
    /\ classified
    /\ retryable
    /\ error_text \notin MarkerSet
    /\ Len(error_text) > 0

\* C2: once a failed apply was classified as not retryable, the call makes
\* no further terraform apply invocation.
C2_FatalFailureNotRetried ==
    [][(entry = "run_terraform_apply" /\ lastRc # 0 /\ classified /\ ~retryable)
          => applyCalls' = applyCalls]_vars

\* C3: the bounded pollers never probe more than max_attempts times, they
\* report timeout only after exactly max_attempts probes, the ingress
\* timeout aborts and the DNS timeout returns, and success is reported only
\* for a probe that succeeded.
C3_ExhaustedAfterMaxAttempts ==
    /\ ingProbes <= IngMaxAttempts
    /\ dnsProbes <= DnsMaxAttempts
    /\ ingStatus = "timeout" =>
          (ingProbes = IngMaxAttempts /\ ~ingFound /\ pc = "done" /\ status = "aborted")
    /\ dnsStatus = "timeout" =>
          (dnsProbes = DnsMaxAttempts /\ ~dnsFound /\ pc = "done" /\ status = "returned")
    /\ "Ingress address found" \in console => ingStatus = "address"
    /\ "DNS records have propagated successfully" \in console => dnsStatus = "propagated"
    /\ (ingStatus = "address" => ingFound) /\ (dnsStatus = "propagated" => dnsFound)

\* both pollers ran out of attempts in some run
C3_Witness ==
    /\ dnsStatus = "timeout"
    /\ dnsProbes = DnsMaxAttempts
    /\ ingStatus = "address"

\* C4: a poller that returns success has made exactly k probes, the first
\* k - 1 of them failures each followed by one sleep, and makes no probe and
\* no sleep after the successful one.
C4_SuccessAtAttemptK ==
    /\ [](/\ ingStatus = "address" =>
               (ingFound /\ ingProbes = ingAttempt + 1 /\ ingSleeps = ingProbes - 1)
          /\ dnsStatus = "propagated" =>
               (dnsFound /\ dnsProbes = dnsAttempt + 1 /\ dnsSleeps = dnsProbes - 1))
    /\ [][/\ ingStatus = "address" => (ingProbes' = ingProbes /\ ingSleeps' = ingSleeps)
          /\ dnsStatus = "propagated" => (dnsProbes' = dnsProbes /\ dnsSleeps' = dnsSleeps
                                           /\ lastSleep' = lastSleep)]_vars

\* both pollers succeeded after at least one failed probe
C4_Witness ==
    /\ ingStatus = "address"
    /\ ingProbes > 1
    /\ dnsStatus = "propagated"
    /\ dnsProbes > 1

\* the wait of verify_dns_propagation before its n-th retry, in tenths of a
\* second: 20, 30, 45, 60, 60, ...
ExpectedWait(n) ==
    CASE n = 1 -> 200
      [] n = 2 -> 300
      [] n = 3 -> 450
      [] OTHER -> 600

\* C5: the n-th sleep of verify_dns_propagation lasts 20, 30, 45, 60, 60, ...
\* seconds, wait_time never decreases and never exceeds 60.
C5_BackoffSequence ==
    /\ [](/\ wait_time <= DnsWaitCap
          /\ wait_time >= DnsInitialWait
          /\ dnsSleeps >= 1 => lastSleep = ExpectedWait(dnsSleeps)
          /\ pc = "dns_loop" => wait_time = ExpectedWait(dnsSleeps + 1))
    /\ [][wait_time' >= wait_time]_vars

\* the fifth sleep has been made, at the cap
C5_Witness ==
    /\ dnsSleeps = 5
    /\ lastSleep = DnsWaitCap
    /\ pc = "dns_sleep"

\* C6: a poller sleeps only when another probe will follow, so a poller
\* that ran out of attempts has slept max_attempts - 1 times.
C6_NoSleepAfterLastProbe ==
    /\ pc = "dns_sleep" => dnsAttempt < DnsMaxAttempts
    /\ pc = "ing_sleep" => ingAttempt < IngMaxAttempts
    /\ dnsStatus = "timeout" => dnsSleeps = DnsMaxAttempts - 1
    /\ ingStatus = "timeout" => ingSleeps = IngMaxAttempts - 1

\* C7: terraform apply is invoked at most max_retries times, each
\* invocation after the first follows exactly one sleep since the previous
\* one, and every such sleep lasts 30 seconds.
C7_ApplyCappedFlatDelay ==
    entry = "run_terraform_apply" =>
        /\ applyCalls <= max_retries
        /\ pc = "apply_loop" => applySleeps = applyCalls
        /\ pc \in {"apply_sleep_try", "apply_sleep_handler"} => applySleeps = applyCalls
        /\ applySleeps <= applyCalls
        /\ applyCalls <= applySleeps + 1
        /\ applySleeps > 0 => lastSleep = ApplyRetryDelay

\* the third apply of a call follows two sleeps
C7_Witness ==
    /\ entry = "run_terraform_apply"
    /\ applyCalls = 3
    /\ applySleeps = 2
    /\ pc = "done"

\* C8: once a user interrupt was delivered during a sleep the call is over,
\* the KeyboardInterrupt reaches the caller, and no probe and no apply is
\* invoked afterwards.
C8_InterruptEndsLoop ==
    /\ [](intr => (pc = "done" /\ status = "interrupted"))
    /\ [][intr => (/\ applyCalls' = applyCalls
                   /\ ingProbes' = ingProbes
                   /\ dnsProbes' = dnsProbes
                   /\ eksProbes' = eksProbes)]_vars

\* an interrupt arrived during the sleep inside the try block of the apply
\* loop, after a retryable failure
C8_Witness ==
    /\ intr
    /\ entry = "run_terraform_apply"
    /\ retryable
    /\ applyCalls = 1

\* C9: a DNS timeout lets setup_ingress finish with 'Setup Complete'; an
\* ingress-address timeout aborts it before the DNS instructions, the DNS
\* check and 'Setup Complete'.
C9_TimeoutPolicy ==
    /\ dnsStatus = "timeout" =>
          (pc = "done" /\ status = "returned" /\ "Setup Complete!" \in console)
    /\ ingStatus = "timeout" =>
          /\ pc = "done"
          /\ status = "aborted"
          /\ "DNS Configuration Required" \notin console
          /\ "Verifying DNS Propagation" \notin console
          /\ dnsProbes = 0
          /\ "Setup Complete!" \notin console

\* verify_dns_propagation timed out and setup_ingress completed
C9_Witness ==
    /\ dnsStatus = "timeout"
    /\ "DNS propagation is taking longer than expected" \in console
    /\ "Setup Complete!" \in console

\* C10: wait_for_eks_cluster returns only after a listing that shows the
\* marker; it has no timeout exit, so without the marker it keeps polling.
C10_EksReturnsOnlyWhenReady ==
    entry = "wait_for_eks_cluster" =>
        /\ status = "returned" => eksReady
        /\ status # "aborted"
        /\ (pc = "done" /\ ~eksReady) => status \in {"raised", "interrupted"}
        /\ (status = "running" /\ pc = "eks_loop") => ~eksReady

\* after every probe the model follows, none with the marker, the loop is
\* still polling
C10_Witness ==
    /\ entry = "wait_for_eks_cluster"
    /\ eksProbes = MaxEksProbes
    /\ eksSleeps > 0
    /\ pc = "eks_loop"
    /\ status = "running"

\* C11: every two consecutive `kubectl get nodes` probes of
\* wait_for_eks_cluster are separated by one sleep of 10 seconds, whatever
\* made the earlier probe unsuccessful: when a probe is invoked, every probe
\* before it was followed by one sleep.
C11_FixedIntervalProbes ==
    [][(entry = "wait_for_eks_cluster" /\ eksProbes' = eksProbes + 1)
          => (eksSleeps = eksProbes /\ (eksSleeps > 0 => lastSleep = EksPollDelay))]_vars

\* C12: run_terraform_apply called with max_retries = 0 and not cancelled by
\* the operator ends with an error: it never returns normally having
\* invoked no terraform apply.
C12_ZeroCapRejected ==
    (/\ entry = "run_terraform_apply"
     /\ max_retries = 0
     /\ pc = "done"
     /\ "Terraform apply cancelled." \notin console) => status \in {"aborted", "raised"}

\* C13: whenever a step has aborted because an external command exited
\* nonzero, the text that command wrote to its captured stderr has been
\* printed.
C13_AbortShowsCapturedStderr ==
    (status = "aborted" /\ failure.cmd # "none" /\ failure.err # <<>>) => failure.shown

\* the steps of install and the line each prints last when it returns
InstallSteps ==
    <<"check_aws_permissions", "run_terraform_setup", "deploy_helm_charts", "setup_ingress">>

StepDone ==
    <<"Permissions check completed successfully!",
      "Terraform setup completed successfully!",
      "Helm deployment completed successfully!",
      "Setup Complete!">>

\* the external commands of each step
StepCommands ==
    <<{"git clone", "chmod", "permissions.sh"},
      {"aws sts get-caller-identity", "terraform --version", "terraform init",
       "terraform plan", "terraform apply", "terraform apply -auto-approve",
       "terraform output -json"},
      {"aws eks update-kubeconfig", "kubectl get nodes", "helm registry login",
       "helm install dz-control-plane-crds", "helm install dz-control-plane",
       "kubectl get pods"},
      {"terraform output -json NAME", "kubectl get ingress", "dig"}>>

\* C14: install begins its steps in the order permission check, Terraform
\* setup, Helm deployment, ingress setup, each only after the one before
\* has returned; no command of a step is invoked before that step began;
\* when a step has aborted no later step began, 'Installation Complete' is
\* not printed and install ends with click.Abort; 'Installation Complete'
\* is printed only when every step that began returned.
C14_InstallStepsInOrder ==
    entry = "install" =>
        /\ Len(steps) <= 4
        /\ steps = SubSeq(InstallSteps, 1, Len(steps))
        /\ \A i \in 1..4 : (cmds \cap StepCommands[i] # {}) => Len(steps) >= i
        /\ \A i \in 1..4 : (Len(steps) > i) => StepDone[i] \in console
        /\ \A i \in 1..4 : (i > Len(steps)) => StepDone[i] \notin console
        /\ (pc = "done" /\ ~intr /\ Len(steps) >= 1 /\ StepDone[Len(steps)] \notin console)
              => (status = "aborted" /\ "Installation Complete" \notin console)
        /\ status = "aborted" => "Installation Complete" \notin console
        /\ "Installation Complete" \in console =>
              /\ pc = "done"
              /\ status = "returned"
              /\ Len(steps) >= 3
              /\ \A i \in 1..Len(steps) : StepDone[i] \in console

\* the Helm deployment aborted after Terraform setup had returned: no
\* command of the ingress step was invoked
C14_Witness ==
    /\ entry = "install"
    /\ pc = "done"
    /\ status = "aborted"
    /\ Len(steps) = 3
    /\ "helm install dz-control-plane-crds" \in cmds
    /\ "Installation cancelled." \in console
    /\ cmds \cap StepCommands[4] = {}

\* text equals 'destroy' when letter case is ignored
EqualsDestroyIgnoringCase(text) ==
    /\ Len(text) = 7
    /\ \A i \in 1..7 :
          text[i] \in {DestroyWord[i], <<"D", "E", "S", "T", "R", "O", "Y">>[i]}

\* C15: without force, destroy_resources runs its prerequisite check and
\* its teardown commands only after the operator typed 'destroy' in some
\* letter case; after any other input, the empty default included, it has
\* aborted with no command invoked; with force it asks nothing.
C15_DestroyNeedsTypedConfirmation ==
    entry = "destroy_resources" =>
        /\ force => prompts = {}
        /\ (~force /\ pc # "ds_start") => "Type 'destroy' to confirm" \in prompts
        /\ (~force /\ (cmds # {} \/ "Checking Prerequisites" \in console
                         \/ pc \in {"ds_prereq", "ds_cleanup", "ds_terraform"}))
              => EqualsDestroyIgnoringCase(typed)
        /\ (~force /\ pc # "ds_start" /\ ~EqualsDestroyIgnoringCase(typed))
              => (pc = "done" /\ status = "aborted" /\ cmds = {})

\* the operator typed the word in mixed case and terraform destroy ran
C15_Witness ==
    /\ entry = "destroy_resources"
    /\ ~force
    /\ typed = <<"D", "e", "s", "t", "r", "o", "Y">>
    /\ "terraform destroy -auto-approve" \in cmds

\* C16: deploy_helm_charts asks the operator for the cluster name only
\* after its query of the terraform outputs was made and failed or lacked
\* the key eks_cluster_name.
C16_ClusterNameFromOutputs ==
    "Enter your EKS cluster name" \in prompts
        => helmOutputs \in {"empty", "cmd_error", "bad_json", "bad_shape", "no_binary"}

\* C17: 'Terraform setup completed successfully' is printed only after a
\* terraform apply of that call exited with status 0.
C17_SetupSucceedsOnlyAfterApply ==
    "Terraform setup completed successfully!" \in console
        => exit0 \cap {"terraform apply", "terraform apply -auto-approve"} # {}

\* C18: while a streamed readout has not returned, the parent or the
\* subprocess can take a step.
C18_ReadoutNeverDeadlocks ==
    (entry = "stream_subprocess_output" /\ pc # "done")
        => ENABLED (ChildWrite \/ ChildExit \/ ReadStdoutLine \/ ReadStdoutEof
                    \/ ReadoutWait)

\* C19: install --non-interactive issues no prompt, confirm or pause.
C19_NonInteractiveNeverPrompts ==
    (entry = "install" /\ non_interactive) => prompts = {}

\* C20: terraform destroy is invoked only after the Helm cleanup ran, and
\* once the cleanup ran, whatever its commands did, terraform destroy is
\* the next thing invoked or has been invoked.
C20_CleanupNeverBlocksDestroy ==
    /\ [](entry = "destroy_resources" =>
            /\ "terraform destroy -auto-approve" \in cmds => CleanupCommands[1] \in cmds
            /\ CleanupCommands[1] \in cmds =>
                  (pc = "ds_terraform" \/ "terraform destroy -auto-approve" \in cmds))
    /\ [][("terraform destroy -auto-approve" \notin cmds
            /\ "terraform destroy -auto-approve" \in cmds')
             => CleanupCommands[1] \in cmds]_vars

\* helm could not be started, the warning was printed and terraform destroy
\* was invoked
C20_Witness ==
    /\ entry = "destroy_resources"
    /\ "Warning during Helm cleanup" \in console
    /\ "helm uninstall dz-control-plane-crds" \notin cmds
    /\ "terraform destroy -auto-approve" \in cmds

\* C21: destroy_resources prints 'Cleanup Complete' only after terraform
\* destroy exited with status 0; when terraform destroy exited nonzero the
\* call has ended with click.Abort and 'Cleanup Complete' is not printed.
C21_CleanupCompleteOnlyAfterDestroy ==
    entry = "destroy_resources" =>
        /\ "Cleanup Complete!" \in console =>
              /\ "terraform destroy -auto-approve" \in exit0
              /\ status = "returned"
        /\ failure.cmd = "terraform destroy -auto-approve" =>
              /\ pc = "done"
              /\ status = "aborted"
              /\ "Cleanup Complete!" \notin console

\* terraform destroy exited nonzero after the cleanup: the call aborted
C21_Witness ==
    /\ entry = "destroy_resources"
    /\ failure.cmd = "terraform destroy -auto-approve"
    /\ "Terraform destroy failed: stderr" \in console
    /\ status = "aborted"

\* the two command lines of terraform apply
ApplyCommands == {ApplyCommand(FALSE), ApplyCommand(TRUE)}

\* C22: once a terraform apply has exited with status 0 in a call of
\* run_terraform_apply, no step of that call starts another terraform apply.
C22_NoApplyAfterSuccess ==
    [][(exit0 \cap ApplyCommands # {}) => applyCalls' <= applyCalls]_vars

\* C23: terraform apply is invoked only with auto_approve set or after the
\* operator answered yes to the confirmation; after a declined or broken-off
\* confirmation no apply was invoked; -auto-approve is on the command line
\* only when auto_approve is set.
C23_ApplyNeedsApproval ==
    /\ cmds \cap ApplyCommands # {} => approval \in {"auto", "yes"}
    /\ applyCalls > 0 => approval \in {"auto", "yes"}
    /\ approval = "auto" => auto_approve
    /\ approval = "yes" =>
          /\ ~auto_approve
          /\ "Do you want to continue with Terraform apply?" \in prompts
    /\ approval \in {"no", "eof"} =>
          /\ cmds \cap ApplyCommands = {}
          /\ applyCalls = 0
    /\ "terraform apply -auto-approve" \in cmds => auto_approve
    /\ "terraform apply" \in cmds => ~auto_approve

\* the operator answered yes and terraform apply ran without -auto-approve
C23_Witness ==
    /\ approval = "yes"
    /\ "terraform apply" \in cmds
    /\ "terraform apply -auto-approve" \notin cmds
    /\ applyCalls > 0

\* the commands that take resources down
TeardownCommands ==
    {CleanupCommands[i] : i \in 1..3} \cup {"terraform destroy -auto-approve"}

\* C24: destroy_resources invokes a teardown command only after aws sts
\* get-caller-identity exited with status 0; when its prerequisite check
\* failed (directory missing, aws exiting nonzero or not startable) the call
\* has ended with click.Abort and no teardown command was invoked, with or
\* without force.
C24_FailedPrerequisitesStopDestroy ==
    entry = "destroy_resources" =>
        /\ cmds \cap TeardownCommands # {} =>
              "aws sts get-caller-identity" \in exit0
        /\ ("Checking Prerequisites" \in console
              /\ "aws sts get-caller-identity" \notin exit0) =>
              /\ pc = "done"
              /\ status = "aborted"
              /\ cmds \cap TeardownCommands = {}

\* with force, aws could not be started: the call aborted with nothing
\* taken down
C24_Witness ==
    /\ entry = "destroy_resources"
    /\ force
    /\ "aws sts get-caller-identity" \in cmds
    /\ "aws sts get-caller-identity" \notin exit0
    /\ failure.cmd = "none"
    /\ "Error during resource destruction" \in console
    /\ status = "aborted"

====
